---- MODULE Spec2Model ----
(***************************************************************************)
(* Threat Explorer backend: the in-memory attacks store, the query tools   *)
(* built on it, and the agent conversation loops (llm, react, multi).      *)
(* Texts are TLA+ strings, handled as the Python code handles str values.  *)
(***************************************************************************)
EXTENDS Integers, Sequences, FiniteSets, TLC

(***************************************************************************)
(* Text helpers (Python str operations used by the code)                   *)
(***************************************************************************)
LowerLetters == "abcdefghijklmnopqrstuvwxyz"
UpperLetters == "ABCDEFGHIJKLMNOPQRSTUVWXYZ"
Digits == "0123456789"

CharAt(s, i) == SubSeq(s, i, i)

\* position of the one-character string c in s, 0 when absent
Lowest(S) == CHOOSE i \in S : \A j \in S : i <= j

PosIn(c, s) ==
  LET at == {i \in 1..Len(s) : CharAt(s, i) = c}
  IN IF at = {} THEN 0 ELSE Lowest(at)

LowerSet == {CharAt(LowerLetters, i) : i \in 1..Len(LowerLetters)}

UpperChar(c) == IF c \in LowerSet THEN CharAt(UpperLetters, PosIn(c, LowerLetters)) ELSE c

\* str.upper(), by halves
RECURSIVE Upper(_)
Upper(s) ==
  IF Len(s) <= 1 THEN UpperChar(s)
  ELSE Upper(SubSeq(s, 1, Len(s) \div 2)) \o Upper(SubSeq(s, (Len(s) \div 2) + 1, Len(s)))

IsSpace(c) == c \in {" ", "\t", "\n", "\r"}

\* str.lstrip() and str.rstrip(): cut at the first / last non-blank character
Highest(S) == CHOOSE i \in S : \A j \in S : i >= j

NonBlank(s) == {i \in 1..Len(s) : ~IsSpace(CharAt(s, i))}

LStrip(s) ==
  IF s = "" \/ ~IsSpace(CharAt(s, 1)) THEN s
  ELSE IF NonBlank(s) = {} THEN "" ELSE SubSeq(s, Lowest(NonBlank(s)), Len(s))

RStrip(s) ==
  IF s = "" \/ ~IsSpace(CharAt(s, Len(s))) THEN s
  ELSE IF NonBlank(s) = {} THEN "" ELSE SubSeq(s, 1, Highest(NonBlank(s)))

Strip(s) == RStrip(LStrip(s))

StartsWith(s, p) == Len(p) <= Len(s) /\ SubSeq(s, 1, Len(p)) = p

\* first position at which sub occurs in s, 0 when it does not occur
Find(s, sub) ==
  LET at == {i \in 1..(Len(s) - Len(sub) + 1) : SubSeq(s, i, i + Len(sub) - 1) = sub}
  IN IF at = {} THEN 0 ELSE Lowest(at)

\* Python's  sub in s
Contains(s, sub) == Find(s, sub) > 0

From(s, i) == SubSeq(s, i, Len(s))

\* str.replace(old, "")
RECURSIVE Remove(_, _)
Remove(s, old) ==
  IF Find(s, old) = 0 THEN s
  ELSE SubSeq(s, 1, Find(s, old) - 1) \o Remove(From(s, Find(s, old) + Len(old)), old)

\* str(n) for an integer
RECURSIVE NatStr(_)
NatStr(n) == IF n < 10 THEN CharAt(Digits, n + 1) ELSE NatStr(n \div 10) \o CharAt(Digits, (n % 10) + 1)

IntStr(n) == IF n < 0 THEN "-" \o NatStr(-n) ELSE NatStr(n)

IsDigits(s) == s # "" /\ \A i \in 1..Len(s) : PosIn(CharAt(s, i), Digits) > 0

RECURSIVE NatVal(_)
NatVal(s) == IF s = "" THEN 0 ELSE 10 * NatVal(SubSeq(s, 1, Len(s) - 1)) + (PosIn(CharAt(s, Len(s)), Digits) - 1)

IsInt(s) == IsDigits(s) \/ (StartsWith(s, "-") /\ IsDigits(Tail(s)))

IntVal(s) == IF StartsWith(s, "-") THEN -NatVal(Tail(s)) ELSE NatVal(s)

\* the text up to the first blank (a word), and what follows it
FirstWord(s) == IF Find(s, " ") = 0 THEN s ELSE SubSeq(s, 1, Find(s, " ") - 1)
AfterFirstWord(s) == IF Find(s, " ") = 0 THEN "" ELSE LStrip(From(s, Find(s, " ")))

(***************************************************************************)
(* The attacks table and the SQL engine behind cursor.execute              *)
(* (db/database.py).  The engine is sqlite3; it is modelled for the        *)
(* statement shapes listed in Queries, on the statement text itself.       *)
(***************************************************************************)
Columns == <<"Attack Type", "Severity Level">>

\* the data rows of the dataset file, cybersecurity_attacks.csv
CsvRow(i) ==
  CASE i % 3 = 1 -> <<"Malware", "High">>
    [] i % 3 = 2 -> <<"DDoS", "Low">>
    [] OTHER     -> <<"Malware", "Critical">>

CsvRows(n) == [i \in 1..n |-> CsvRow(i)]

\* a value sqlite3 hands back: str, int or bytes, each kept as its text
TextVal(s) == [t |-> "text", v |-> s]
IntValue(n) == [t |-> "int", v |-> IntStr(n)]
BytesVal(s) == [t |-> "bytes", v |-> s]
\* the value None that sqlite3 hands back for NULL
NullVal == [t |-> "null", v |-> "null"]

\* position i of s lies outside '...' and "..."
Outside(s, i) ==
  /\ Cardinality({j \in 1..(i - 1) : CharAt(s, j) = "'"}) % 2 = 0
  /\ Cardinality({j \in 1..(i - 1) : CharAt(s, j) = "\""}) % 2 = 0

\* the statement without its trailing  -- comment
DropComment(s) ==
  LET at == {i \in 1..(Len(s) - 1) : SubSeq(s, i, i + 1) = "--" /\ Outside(s, i)}
  IN IF at = {} THEN s ELSE SubSeq(s, 1, Lowest(at) - 1)

SqlErr(msg) ==
  [ok |-> FALSE, error |-> msg, description |-> FALSE, columns |-> <<>>, rows |-> <<>>,
   dropped |-> FALSE]

SqlRows(cols, rs) ==
  [ok |-> TRUE, error |-> "", description |-> TRUE, columns |-> cols, rows |-> rs,
   dropped |-> FALSE]

SqlNoRows(drop) ==
  [ok |-> TRUE, error |-> "", description |-> FALSE, columns |-> <<>>, rows |-> <<>>,
   dropped |-> drop]

SyntaxErr(rest) == SqlErr("near \"" \o FirstWord(rest) \o "\": syntax error")

\* LIMIT n: the first n rows; a negative n means no limit
Take(rs, n) == IF n < 0 \/ n >= Len(rs) THEN rs ELSE SubSeq(rs, 1, n)

\* the rows whose column col compares (eq: equal / unequal) to lit
SelectRows(rs, col, eq, lit) ==
  LET keep(r) == IF eq THEN r[col] = lit ELSE r[col] # lit
  IN SelectSeq(rs, keep)

ColIndex(name) == IF name = Columns[1] THEN 1 ELSE IF name = Columns[2] THEN 2 ELSE 0

\* the optional  LIMIT n  that may end a SELECT, applied to the rows found
ParseLimit(rest, cols, rs) ==
  IF rest = "" THEN SqlRows(cols, rs)
  ELSE IF Upper(FirstWord(rest)) = "LIMIT" /\ IsInt(AfterFirstWord(rest))
       THEN SqlRows(cols, Take(rs, IntVal(AfterFirstWord(rest))))
  ELSE SyntaxErr(rest)

\* the optional  WHERE "col" = 'lit'  /  WHERE "col" != 'lit'
ParseWhere(rest, tableRows) ==
  IF ~(Upper(FirstWord(rest)) = "WHERE" /\ StartsWith(From(rest, 7), "\""))
  THEN [ok |-> TRUE, rows |-> tableRows, rest |-> rest]
  ELSE LET r1 == From(rest, 8)
           q1 == Find(r1, "\"")
           col == SubSeq(r1, 1, q1 - 1)
           r2 == LStrip(From(r1, q1 + 1))
           eq == StartsWith(r2, "= '")
           ne == StartsWith(r2, "!= '")
           r3 == From(r2, IF eq THEN 4 ELSE 5)
           q2 == Find(r3, "'")
       IN IF q1 > 0 /\ ColIndex(col) > 0 /\ (eq \/ ne) /\ q2 > 0
          THEN [ok |-> TRUE,
                rows |-> SelectRows(tableRows, ColIndex(col), eq, SubSeq(r3, 1, q2 - 1)),
                rest |-> LStrip(From(r3, q2 + 1))]
          ELSE [ok |-> FALSE, rows |-> <<>>, rest |-> rest]

TextRow(r) == [i \in 1..Len(r) |-> TextVal(r[i])]

\* SELECT <what> [FROM <table> [WHERE ...]] [LIMIT n]
ParseSelect(exists, tableRows, stmt) ==
  LET r1 == AfterFirstWord(stmt)
      what == FirstWord(r1)
      r2 == AfterFirstWord(r1)
      tbl == FirstWord(AfterFirstWord(r2))
      r3 == AfterFirstWord(AfterFirstWord(r2))
      w == ParseWhere(r3, tableRows)
  IN IF Upper(what) \notin {"*", "COUNT(*)", "X'41'"} THEN SyntaxErr(r1)
     ELSE IF Upper(FirstWord(r2)) # "FROM"
          THEN IF Upper(what) = "X'41'" THEN ParseLimit(r2, <<what>>, << <<BytesVal("A")>> >>)
               ELSE IF what = "*" THEN SqlErr("no tables specified")
               ELSE ParseLimit(r2, <<what>>, << <<IntValue(1)>> >>)
     ELSE IF Upper(tbl) # "ATTACKS" \/ ~exists THEN SqlErr("no such table: " \o tbl)
     ELSE IF ~w.ok THEN SyntaxErr(w.rest)
     ELSE IF what = "*"
          THEN ParseLimit(w.rest, Columns, [i \in 1..Len(w.rows) |-> TextRow(w.rows[i])])
     ELSE IF Upper(what) = "COUNT(*)"
          THEN ParseLimit(w.rest, <<what>>, << <<IntValue(Len(w.rows))>> >>)
     ELSE ParseLimit(w.rest, <<what>>, [i \in 1..Len(w.rows) |-> <<BytesVal("A")>>])

\* the first statement of the text, prepared and run
ExecuteStatement(exists, tableRows, stmt) ==
  IF stmt = "" THEN SqlNoRows(FALSE)
  ELSE IF Upper(FirstWord(stmt)) = "SELECT" THEN ParseSelect(exists, tableRows, stmt)
  ELSE IF Upper(FirstWord(stmt)) = "DROP" /\ Upper(FirstWord(AfterFirstWord(stmt))) = "TABLE"
       THEN LET name == AfterFirstWord(AfterFirstWord(stmt))
            IN IF Find(name, " ") > 0 THEN SyntaxErr(AfterFirstWord(name))
               ELSE IF Upper(name) = "ATTACKS" /\ exists THEN SqlNoRows(TRUE)
               ELSE SqlErr("no such table: " \o name)
  ELSE SyntaxErr(stmt)

\* cursor.execute(sql): what sqlite3 does with the text; text after the
\* first statement is refused before anything is run
ExecuteSql(exists, tableRows, sql) ==
  LET body == Strip(DropComment(sql))
      semi == Find(body, ";")
      stmt == IF semi > 0 THEN Strip(SubSeq(body, 1, semi - 1)) ELSE body
      r == ExecuteStatement(exists, tableRows, stmt)
  IN IF ~r.ok THEN r
     ELSE IF semi > 0 /\ Strip(From(body, semi + 1)) # ""
     THEN SqlErr("You can only execute one statement at a time.")
     ELSE r

(***************************************************************************)
(* DatabaseService (db/database.py)                                        *)
(***************************************************************************)
BatchSize == 1000

\* _load_csv: each full batch of BatchSize rows is inserted by one
\* executemany, and the rows left over by a last one
RECURSIVE InsertBatches(_, _)
InsertBatches(fileRows, inserted) ==
  IF Len(fileRows) >= BatchSize
  THEN InsertBatches(SubSeq(fileRows, BatchSize + 1, Len(fileRows)),
                     inserted \o SubSeq(fileRows, 1, BatchSize))
  ELSE IF fileRows # <<>> THEN inserted \o fileRows
  ELSE inserted

\* a load that inserts the full batches and leaves out the rows after the last one
LoadCsvFullBatches(fileRows) ==
  InsertBatches(SubSeq(fileRows, 1, (Len(fileRows) \div BatchSize) * BatchSize), <<>>)

LoadCsv(fileRows) == InsertBatches(fileRows, <<>>)

\* dict(zip(columns, row))
ZipDict(cols, row) ==
  [i \in 1..(IF Len(row) < Len(cols) THEN Len(row) ELSE Len(cols)) |->
     [key |-> cols[i], value |-> row[i]]]

ZipAll(cols, rows) == [i \in 1..Len(rows) |-> ZipDict(cols, rows[i])]

\* lines 94-100 of query: the dicts built from what execute left in the cursor
QueryOutcome(r) ==
  IF ~r.ok
  THEN [raised |-> TRUE, error |-> r.error, results |-> <<>>, dropped |-> FALSE]
  ELSE IF ~r.description
  THEN [raised |-> TRUE, error |-> "'NoneType' object is not iterable", results |-> <<>>,
        dropped |-> r.dropped]
  ELSE [raised |-> FALSE, error |-> "", results |-> ZipAll(r.columns, r.rows),
        dropped |-> FALSE]

\* DatabaseService.query(sql): the rows as dicts, or the exception raised
Query(c, exists, tableRows, sql) ==
  IF c = "none"
  THEN [raised |-> TRUE, error |-> "Database not initialized", results |-> <<>>,
        dropped |-> FALSE]
  ELSE IF c = "closed"
  THEN [raised |-> TRUE, error |-> "Cannot operate on a closed database.", results |-> <<>>,
        dropped |-> FALSE]
  ELSE QueryOutcome(ExecuteSql(exists, tableRows, sql))

(***************************************************************************)
(* json.dumps, for the envelopes the tools build                           *)
(***************************************************************************)
JsonEscapeChar(c) ==
  IF c = "\"" THEN "\\\"" ELSE IF c = "\\" THEN "\\\\" ELSE IF c = "\n" THEN "\\n" ELSE c

RECURSIVE JsonEscape(_)
JsonEscape(s) ==
  IF \A i \in 1..Len(s) : CharAt(s, i) \notin {"\"", "\\", "\n"} THEN s
  ELSE IF Len(s) <= 1 THEN JsonEscapeChar(s)
  ELSE JsonEscape(SubSeq(s, 1, Len(s) \div 2))
       \o JsonEscape(SubSeq(s, (Len(s) \div 2) + 1, Len(s)))

JsonString(s) == "\"" \o JsonEscape(s) \o "\""

JsonScalar(val) == IF val.t = "text" THEN JsonString(val.v) ELSE val.v

\* json.dumps raises TypeError on a bytes value
Serializable(results) ==
  \A i \in 1..Len(results) : \A j \in 1..Len(results[i]) : results[i][j].value.t # "bytes"

NotSerializable == "Object of type bytes is not JSON serializable"

\* sep.join(parts), by halves
RECURSIVE JoinLines(_, _)
JoinLines(parts, sep) ==
  IF Len(parts) = 0 THEN ""
  ELSE IF Len(parts) = 1 THEN parts[1]
  ELSE JoinLines(SubSeq(parts, 1, Len(parts) \div 2), sep) \o sep
       \o JoinLines(SubSeq(parts, (Len(parts) \div 2) + 1, Len(parts)), sep)

\* one row dict of the data list, at indent 2 (keys at six blanks)
JsonRow(d) ==
  IF d = <<>> THEN "{}"
  ELSE "{\n"
       \o JoinLines([j \in 1..Len(d) |->
                      "      " \o JsonString(d[j].key) \o ": " \o JsonScalar(d[j].value)],
                    ",\n")
       \o "\n    }"

JsonData(results) ==
  IF results = <<>> THEN "[]"
  ELSE "[\n" \o JoinLines([i \in 1..Len(results) |-> "    " \o JsonRow(results[i])], ",\n")
       \o "\n  ]"

NoResultsMessage == "Query executed successfully but returned no results."
FailedMessage == "Failed to execute query. Check your SQL syntax."

\* the three envelopes of the query tools, as records
OkEnvelope(results) ==
  [success |-> TRUE, row_count |-> Len(results), error |-> "",
   message |-> IF results = <<>> THEN NoResultsMessage ELSE "", data |-> results]

ErrEnvelope(e) ==
  [success |-> FALSE, row_count |-> -1, error |-> e, message |-> FailedMessage, data |-> <<>>]

\* json.dumps(envelope) without indent, and with indent=2
DumpsFlat(env) ==
  IF env.success
  THEN "{\"success\": true, \"row_count\": " \o IntStr(env.row_count) \o ", \"message\": "
       \o JsonString(env.message) \o ", \"data\": []}"
  ELSE "{\"success\": false, \"error\": " \o JsonString(env.error) \o ", \"message\": "
       \o JsonString(env.message) \o "}"

DumpsIndent(env) ==
  IF env.success
  THEN "{\n  \"success\": true,\n  \"row_count\": " \o IntStr(env.row_count)
       \o (IF env.message # "" THEN ",\n  \"message\": " \o JsonString(env.message) ELSE "")
       \o ",\n  \"data\": " \o JsonData(env.data) \o "\n}"
  ELSE "{\n  \"success\": false,\n  \"error\": " \o JsonString(env.error)
       \o ",\n  \"message\": " \o JsonString(env.message) \o "\n}"

(***************************************************************************)
(* The query tools: tools/database_tool.py, mcp/database_server.py and     *)
(* the /query endpoint of api/routes.py                                    *)
(***************************************************************************)
ToolLimit == 50

\* the statement the tool hands to db.query:  LIMIT 50  appended when the
\* upper-cased text does not contain LIMIT
WithLimit(query) ==
  LET sql == Strip(query)
  IN IF ~Contains(Upper(sql), "LIMIT") THEN sql \o " LIMIT " \o IntStr(ToolLimit) ELSE sql

ToolResult(sql, r, env, text) ==
  [raised |-> FALSE, sql |-> sql, queryRaised |-> r.raised, results |-> r.results,
   envelope |-> env, text |-> text, dropped |-> r.dropped]

\* query_database, lines 30-58: the envelope built from what db.query did
ToolOutcome(sql, r) ==
  IF r.raised
  THEN ToolResult(sql, r, ErrEnvelope(r.error), DumpsFlat(ErrEnvelope(r.error)))
  ELSE IF r.results = <<>>
  THEN ToolResult(sql, r, OkEnvelope(<<>>), DumpsFlat(OkEnvelope(<<>>)))
  ELSE IF ~Serializable(r.results)
  THEN ToolResult(sql, r, ErrEnvelope(NotSerializable), DumpsFlat(ErrEnvelope(NotSerializable)))
  ELSE ToolResult(sql, r, OkEnvelope(r.results), DumpsIndent(OkEnvelope(r.results)))

ToolRun(c, exists, tableRows, sql) == ToolOutcome(sql, Query(c, exists, tableRows, sql))

\* query_database(query) of tools/database_tool.py
QueryDatabase(c, exists, tableRows, query) == ToolRun(c, exists, tableRows, WithLimit(query))

\* handle_call_tool, lines 86-116: the envelope built from what db.query did
McpOutcome(sql, r) ==
  IF r.raised
  THEN ToolResult(sql, r, ErrEnvelope(r.error), DumpsIndent(ErrEnvelope(r.error)))
  ELSE IF ~Serializable(r.results)
  THEN ToolResult(sql, r, ErrEnvelope(NotSerializable), DumpsIndent(ErrEnvelope(NotSerializable)))
  ELSE ToolResult(sql, r, OkEnvelope(r.results), DumpsIndent(OkEnvelope(r.results)))

McpRun(c, exists, tableRows, sql) == McpOutcome(sql, Query(c, exists, tableRows, sql))

\* handle_call_tool("query_database", {"query": query}) of the MCP server
McpQueryDatabase(c, exists, tableRows, query) == McpRun(c, exists, tableRows, WithLimit(query))

\* request.limit of QueryRequest (Optional[int]): an int, or None
SomeLimit(n) == [isNone |-> FALSE, n |-> n]
NoLimit == [isNone |-> TRUE, n |-> 0]
Truthy(limit) == ~limit.isNone /\ limit.n # 0

\* POST /query: the statement handed to db.query
EndpointSql(sqlIn, limit) ==
  LET sql == Strip(sqlIn)
  IN IF Truthy(limit) /\ ~Contains(Upper(sql), "LIMIT")
     THEN sql \o " LIMIT " \o IntStr(limit.n) ELSE sql

\* POST /query, lines 234-250: QueryResponse(data, row_count), or HTTPException(400)
EndpointOutcome(sql, r) ==
  IF r.raised
  THEN [raised |-> TRUE, sql |-> sql, queryRaised |-> TRUE, results |-> <<>>,
        envelope |-> ErrEnvelope("Query error: " \o r.error), text |-> "400",
        dropped |-> r.dropped]
  ELSE [raised |-> FALSE, sql |-> sql, queryRaised |-> FALSE, results |-> r.results,
        envelope |-> [OkEnvelope(r.results) EXCEPT !.message = ""], text |-> "200",
        dropped |-> FALSE]

EndpointRun(c, exists, tableRows, sql) == EndpointOutcome(sql, Query(c, exists, tableRows, sql))

\* POST /query with body {sql: sqlIn, limit: limit}
EndpointQuery(c, exists, tableRows, sqlIn, limit) ==
  EndpointRun(c, exists, tableRows, EndpointSql(sqlIn, limit))

\* DatabaseService.get_table_info(): PRAGMA table_info, then SELECT COUNT(*)
GetTableInfo(c, exists, tableRows) ==
  IF c = "none" THEN [raised |-> TRUE, error |-> "Database not initialized",
                      columns |-> <<>>, row_count |-> 0]
  ELSE IF c = "closed" THEN [raised |-> TRUE, error |-> "Cannot operate on a closed database.",
                             columns |-> <<>>, row_count |-> 0]
  ELSE IF ~exists THEN [raised |-> TRUE, error |-> "no such table: attacks",
                        columns |-> <<>>, row_count |-> 0]
  ELSE [raised |-> FALSE, error |-> "",
        columns |-> [i \in 1..Len(Columns) |-> [name |-> Columns[i], type |-> "TEXT"]],
        row_count |-> Len(tableRows)]

ColumnLine(col) == "  - " \o col.name \o " (" \o col.type \o ")"

ColumnJson(col) ==
  "    {\n      \"name\": " \o JsonString(col.name) \o ",\n      \"type\": "
  \o JsonString(col.type) \o "\n    }"

\* get_database_info, lines 74-101: the text built from the table info
InfoOutcome(info) ==
  IF info.raised
  THEN "{\"success\": false, \"error\": " \o JsonString(info.error) \o "}"
  ELSE "{\n  \"success\": true,\n  \"table_name\": \"attacks\",\n  \"total_rows\": "
       \o IntStr(info.row_count) \o ",\n  \"columns\": [\n"
       \o JoinLines([i \in 1..Len(info.columns) |-> ColumnJson(info.columns[i])], ",\n")
       \o "\n  ],\n  \"description\": "
       \o JsonString("Database contains " \o IntStr(info.row_count)
                     \o " cybersecurity attack records with the following columns:\n"
                     \o JoinLines([i \in 1..Len(info.columns) |-> ColumnLine(info.columns[i])],
                                  "\n"))
       \o "\n}"

\* get_database_info() of tools/database_tool.py
GetDatabaseInfo(c, exists, tableRows) == InfoOutcome(GetTableInfo(c, exists, tableRows))

\* handle_call_tool, lines 119-149: the same text, the error dumped with indent=2
McpInfoOutcome(info) ==
  IF info.raised
  THEN "{\n  \"success\": false,\n  \"error\": " \o JsonString(info.error) \o "\n}"
  ELSE InfoOutcome(info)

\* handle_call_tool(name, {}) for a name other than query_database: the text
\* returned, or the ValueError raised at the end of the dispatcher
McpDispatch(c, exists, tableRows, name) ==
  IF name = "get_database_info"
  THEN [raised |-> FALSE, error |-> "",
        text |-> McpInfoOutcome(GetTableInfo(c, exists, tableRows))]
  ELSE [raised |-> TRUE, error |-> "Unknown tool: " \o name, text |-> ""]

(***************************************************************************)
(* State                                                                   *)
(***************************************************************************)
VARIABLES
  conn,             \* db.conn: "none", "open" or "closed"
  tableExists,      \* the attacks table exists in the in-memory database
  tableRows,        \* its rows, in insertion order
  call,             \* the last call made through a query tool, with its outcome
  agent,            \* the agent serving the request: "llm", "react" or "multi"
  mode,             \* the method running: "chat" or "stream" (chat_stream)
  history,          \* the request's messages
  pc,               \* where the running method stands
  lc_messages,      \* the conversation handed to the model
  iteration,        \* the loop counter of the method
  response,         \* the last model response
  final_response,   \* chat_stream: the tool-free response, or None
  pending,          \* the tool calls of the last response not yet executed
  tool_calls_made,  \* LLMAgent: names of the tools executed
  db_results,       \* MultiAgent: the query result text, or None
  outbox,           \* chat_stream: chunks computed and not yet yielded
  chunks,           \* chat_stream: chunks yielded to the caller
  result,           \* the AgentResponse returned, or the exception raised
  tape,             \* the model backend's outcomes, by invocation number
  invocations,      \* model invocations made by the running method
  toolRuns,         \* tool executions made by the running method
  first,            \* the outcome of the method that ran first on this request
  seen,             \* the conversations handed to the model invocations of the running method
  http,             \* the response of the /chat handler to the request, or None
  cursor,           \* db.cursor: what the last execute left in the shared cursor
  requests,         \* the calls of db.query under way in concurrent requests
  startup,          \* the outcome of db.initialize() in the startup handler
  logger,           \* conversation_logger: its conversations, the log files, the clock
  logged,           \* the last call of a method of conversation_logger
  dataset           \* the dataset file initialize() looked for: present or not, its data rows

logVars == <<logger, logged>>

dbVars == <<conn, tableExists, tableRows, call, cursor, requests, startup, dataset>>

storeVars == <<dbVars, logVars>>

agentVars == <<agent, mode, history, pc, lc_messages, iteration, response, final_response,
               pending, tool_calls_made, db_results, outbox, chunks, result, tape,
               invocations, toolRuns, first, seen, http>>

vars == <<conn, tableExists, tableRows, call, agent, mode, history, pc, lc_messages,
          iteration, response, final_response, pending, tool_calls_made, db_results,
          outbox, chunks, result, tape, invocations, toolRuns, first, seen, http,
          cursor, requests, startup, logger, logged, dataset>>

None == [none |-> TRUE]

(***************************************************************************)
(* The store and the query tools as a state machine                        *)
(***************************************************************************)
\* the largest dataset loaded; one row more than the tools' row cap
MaxRows == 51

RowCounts == {0, 3, MaxRows}

\* query strings sent by callers and by the model
Queries ==
  { "SELECT * FROM attacks",
    "  select * from attacks limit 2 ",
    "SELECT * FROM attacks WHERE \"Attack Type\" != 'limit'",
    "SELECT * FROM attacks -- all",
    "SELECT * FROM attacks;",
    "SELECT COUNT(*) FROM attacks WHERE \"Attack Type\" = 'Malware'",
    "SELECT x'41'",
    "SELEC * FROM attacks",
    "DROP TABLE attacks --",
    "" }

\* request.limit values of POST /query; 100 is the default
DefaultLimit == 100
Limits == {NoLimit, SomeLimit(0), SomeLimit(-1), SomeLimit(DefaultLimit)}

\* the cursor made by initialize: nothing executed on it yet
EmptyCursor == [description |-> FALSE, columns |-> <<>>, rows |-> <<>>]

RequestIds == {"a", "b"}

\* the dict get_table_info has not built yet
NoInfo == [columns |-> <<>>, row_count |-> NullVal]

\* a request that has called neither db.query nor db.get_table_info
NoRequest ==
  [pc |-> "idle", kind |-> "query", sql |-> "", own |-> SqlNoRows(FALSE),
   pragma |-> SqlNoRows(FALSE), columns |-> <<>>, fetched |-> <<>>, raised |-> FALSE,
   error |-> "", results |-> <<>>, info |-> NoInfo, garbled |-> FALSE]

NoRequests == [t \in RequestIds |-> NoRequest]

NoCall ==
  [entry |-> "none", query |-> "", limit |-> NoLimit, raised |-> FALSE, sql |-> "",
   queryRaised |-> FALSE, results |-> <<>>, envelope |-> ErrEnvelope(""), text |-> "",
   dropped |-> FALSE]

CallRecord(entry, query, limit, out) ==
  [entry |-> entry, query |-> query, limit |-> limit, raised |-> out.raised, sql |-> out.sql,
   queryRaised |-> out.queryRaised, results |-> out.results, envelope |-> out.envelope,
   text |-> out.text, dropped |-> out.dropped]

(***************************************************************************)
(* ConversationLogger (utils/conversation_logger.py): the conversations it *)
(* tracks, the files it writes, and the clock it reads                     *)
(***************************************************************************)
\* a Python dict as a function: d[k] = v, and del d[k]
Put(d, k, v) == [x \in DOMAIN d \cup {k} |-> IF x = k THEN v ELSE d[x]]
Del(d, k) == [x \in DOMAIN d \ {k} |-> d[x]]

\* Optional[str]: a string, or None
Some(text) == [none |-> FALSE, text |-> text]

\* Message(role, content, timestamp) of agents/base.py, agent_type left at None
ChatMessage(role, content, timestamp) ==
  [role |-> role, content |-> content, timestamp |-> timestamp, agent_type |-> None]

\* datetime.now().isoformat() and datetime.now().strftime("%Y%m%d_%H%M%S"),
\* for the clock reading now (seconds after 2025-12-09T10:30:00)
Isoformat(now) == "2025-12-09T10:30:0" \o NatStr(now)
Strftime(now) == "20251209_10300" \o NatStr(now)

\* self.logs_dir / f"conversation_{conversation_id}_{timestamp}.json"
Filepath(conversation_id, now) ==
  "logs/conversation_" \o conversation_id \o "_" \o Strftime(now) \o ".json"

\* ConversationLogger(): no conversation is active; no file has been written
NewLogger == [active |-> <<>>, files |-> <<>>, writes |-> <<>>, now |-> 0]

StartConversation(L, conversation_id, agent_type) ==
  [L EXCEPT !.active =
     Put(L.active, conversation_id,
         [conversation_id |-> conversation_id, agent_type |-> agent_type,
          started_at |-> Isoformat(L.now), messages |-> <<>>,
          filepath |-> Filepath(conversation_id, L.now)])]

\* message.timestamp or datetime.now().isoformat()
TimestampOr(timestamp, now) ==
  IF timestamp = None THEN Isoformat(now)
  ELSE IF timestamp.text = "" THEN Isoformat(now) ELSE timestamp.text

\* the dict stored for a message
MessageDict(message, now) ==
  [role |-> message.role, content |-> message.content,
   timestamp |-> TimestampOr(message.timestamp, now)]

\* if conversation_id not in self.active_conversations: start it
Started(L, conversation_id, agent_type) ==
  IF conversation_id \notin DOMAIN L.active
  THEN StartConversation(L, conversation_id, agent_type) ELSE L

AppendMessage(L, conversation_id, message) ==
  [L EXCEPT !.active[conversation_id].messages = Append(@, MessageDict(message, L.now))]

LogMessage(L, conversation_id, message) ==
  AppendMessage(Started(L, conversation_id, "unknown"), conversation_id, message)

\* message in [m for m in messages]: the Message is compared with each stored
\* dict by its fields (role, content, timestamp, agent_type)
InStored(message, stored) ==
  \E k \in 1..Len(stored) : DOMAIN message = DOMAIN stored[k] /\ message = stored[k]

\* _write_conversation_log
WriteConversationLog(L, conversation_id) ==
  IF conversation_id \notin DOMAIN L.active THEN L
  ELSE LET conversation_data == L.active[conversation_id]
           filepath == IF conversation_data.filepath = ""
                       THEN Filepath(conversation_id, L.now)
                       ELSE conversation_data.filepath
           data_to_write == [k \in DOMAIN conversation_data \ {"filepath"} |->
                               conversation_data[k]]
       IN [L EXCEPT !.active[conversation_id].filepath = filepath,
                    !.files = Put(L.files, filepath, data_to_write),
                    !.writes = Append(L.writes, filepath)]

\* for message in messages: if message not in [...]: self.log_message(...)
RECURSIVE LogEach(_, _, _)
LogEach(L, conversation_id, messages) ==
  IF messages = <<>> THEN L
  ELSE LogEach(IF InStored(Head(messages), L.active[conversation_id].messages) THEN L
               ELSE LogMessage(L, conversation_id, Head(messages)),
               conversation_id, Tail(messages))

LogConversation(L, conversation_id, messages, agent_type) ==
  WriteConversationLog(LogEach(Started(L, conversation_id, agent_type),
                               conversation_id, messages),
                       conversation_id)

\* end_conversation that keeps the conversation among the active ones
EndConversationKept(L, conversation_id) ==
  IF conversation_id \notin DOMAIN L.active THEN L
  ELSE WriteConversationLog(
         [L EXCEPT !.active[conversation_id] = Put(@, "ended_at", Isoformat(L.now))],
         conversation_id)

EndConversation(L, conversation_id) ==
  IF conversation_id \notin DOMAIN L.active THEN L
  ELSE LET written == WriteConversationLog(
                        [L EXCEPT !.active[conversation_id] =
                                    Put(@, "ended_at", Isoformat(L.now))],
                        conversation_id)
       IN [written EXCEPT !.active = Del(written.active, conversation_id)]

\* update_conversation that adds the messages to the stored ones
UpdateConversationAppending(L, conversation_id, messages, agent_type) ==
  LET S == Started(L, conversation_id, agent_type)
  IN WriteConversationLog(
       [S EXCEPT !.active[conversation_id].messages =
                   @ \o [i \in 1..Len(messages) |-> MessageDict(messages[i], S.now)],
                 !.active[conversation_id].agent_type = agent_type],
       conversation_id)

UpdateConversation(L, conversation_id, messages, agent_type) ==
  LET S == Started(L, conversation_id, agent_type)
  IN WriteConversationLog(
       [S EXCEPT !.active[conversation_id].messages =
                   [i \in 1..Len(messages) |-> MessageDict(messages[i], S.now)],
                 !.active[conversation_id].agent_type = agent_type],
       conversation_id)

\* the most calls of the logger followed, and the latest clock reading
MaxCalls == 3
MaxClock == 1

\* conversation ids, agent types and message lists handed to the logger
ConversationIds == {"a", "b"}
LoggedTypes == {"llm", "react"}
MessageLists ==
  { <<>>,
    <<ChatMessage("user", "Hi", None),
      ChatMessage("assistant", "Hello.", Some("2025-12-09T10:29:59"))>> }

NoLogged ==
  [count |-> 0, op |-> "", id |-> "", messages |-> <<>>, agent_type |-> "",
   before |-> NewLogger]

IdleLogger == logger = NewLogger /\ logged = NoLogged

\* a method of conversation_logger is called and returns
LoggerCall(op, id, messages, agent_type, after) ==
  /\ logger' = after
  /\ logged' = [count |-> logged.count + 1, op |-> op, id |-> id, messages |-> messages,
                agent_type |-> agent_type, before |-> logger]
  /\ UNCHANGED <<dbVars, agentVars>>

CallStartConversation(id, agent_type) ==
  /\ logged.count < MaxCalls
  /\ LoggerCall("start_conversation", id, <<>>, agent_type,
                StartConversation(logger, id, agent_type))

CallLogMessage(id, message) ==
  /\ logged.count < MaxCalls
  /\ LoggerCall("log_message", id, <<message>>, "", LogMessage(logger, id, message))

CallLogConversation(id, messages, agent_type) ==
  /\ logged.count < MaxCalls
  /\ LoggerCall("log_conversation", id, messages, agent_type,
                LogConversation(logger, id, messages, agent_type))

CallEndConversation(id) ==
  /\ logged.count < MaxCalls
  /\ LoggerCall("end_conversation", id, <<>>, "", EndConversation(logger, id))

CallUpdateConversation(id, messages, agent_type) ==
  /\ logged.count < MaxCalls
  /\ LoggerCall("update_conversation", id, messages, agent_type,
                UpdateConversation(logger, id, messages, agent_type))

\* a second passes
Tick ==
  /\ logger.now < MaxClock
  /\ logger' = [logger EXCEPT !.now = @ + 1]
  /\ UNCHANGED logged
  /\ UNCHANGED <<dbVars, agentVars>>

LoggerNext ==
  \/ \E id \in ConversationIds, t \in LoggedTypes : CallStartConversation(id, t)
  \/ \E id \in ConversationIds : CallLogMessage(id, ChatMessage("user", "Hi", None))
  \/ \E id \in ConversationIds, ms \in MessageLists, t \in LoggedTypes :
       CallLogConversation(id, ms, t)
  \/ \E id \in ConversationIds : CallEndConversation(id)
  \/ \E id \in ConversationIds, ms \in MessageLists, t \in LoggedTypes :
       CallUpdateConversation(id, ms, t)
  \/ Tick

IdleAgent ==
  /\ agent = "none" /\ mode = "none" /\ history = <<>> /\ pc = "idle"
  /\ lc_messages = <<>> /\ iteration = 0 /\ response = None /\ final_response = None
  /\ pending = <<>> /\ tool_calls_made = <<>> /\ db_results = None /\ outbox = <<>>
  /\ chunks = <<>> /\ result = None /\ tape = <<>> /\ invocations = 0 /\ toolRuns = 0
  /\ first = None /\ seen = <<>> /\ http = None

\* DatabaseService.__init__
StoreInit ==
  /\ conn = "none" /\ tableExists = FALSE /\ tableRows = <<>> /\ call = NoCall
  /\ cursor = None /\ requests = NoRequests /\ startup = "starting" /\ dataset = None
  /\ IdleLogger
  /\ IdleAgent

\* startup_event: "ready" is reached when db.initialize() returns; the
\* FileNotFoundError it raises for a missing dataset file ends the startup
StartupOutcome(csvPresent) == IF csvPresent THEN "ready" ELSE "failed"

\* DatabaseService.initialize(): connect, then load the dataset file if it exists
Initialize(csvPresent, n) ==
  /\ conn = "none"
  /\ conn' = "open"
  /\ startup' = StartupOutcome(csvPresent)
  /\ dataset' = [present |-> csvPresent, rows |-> CsvRows(n)]
  /\ tableExists' = csvPresent
  /\ tableRows' = IF csvPresent THEN LoadCsv(CsvRows(n)) ELSE <<>>
  /\ cursor' = EmptyCursor
  /\ UNCHANGED <<call, requests, logVars>>
  /\ UNCHANGED agentVars

\* DatabaseService.close()
Close ==
  /\ conn = "open"
  /\ conn' = "closed"
  /\ UNCHANGED <<tableExists, tableRows, call, cursor, requests, startup, logVars, dataset>>
  /\ UNCHANGED agentVars

\* the shared cursor after db.query(sql) has gone from execute to its return
\* or its exception, r being what execute did: a statement that fails leaves
\* no description, one that runs leaves its own, and fetchall takes the rows
CursorAfterExecute(r) ==
  IF ~r.ok THEN EmptyCursor
  ELSE [description |-> r.description, columns |-> r.columns,
        rows |-> IF r.description THEN <<>> ELSE r.rows]

\* the shared cursor after db.query(sql): without a connection the call raises
\* before the cursor is touched, and a closed connection refuses the statement
\* (the call runs with no other request between its steps; the steps of two
\* requests interleave under SpecCursor)
CursorAfterQuery(c, cur, exists, rows, sql) ==
  IF c # "open" THEN cur ELSE CursorAfterExecute(ExecuteSql(exists, rows, sql))

\* the shared cursor after db.get_table_info(): the statement that counts the
\* rows is the last one executed, and fetchone takes its one row
CursorAfterInfo(c, cur, exists, rows) ==
  IF c # "open" THEN cur
  ELSE IF ~exists THEN EmptyCursor
  ELSE [description |-> TRUE, columns |-> <<"COUNT(*)">>, rows |-> <<>>]

\* the shared cursor after the call recorded in c: db.query ran the statement
\* c.sql, db.get_table_info ran its two, and any other call ran nothing
CursorAfterCall(c) ==
  IF c.entry \in {"tool", "mcp", "http"}
  THEN CursorAfterQuery(conn, cursor, tableExists, tableRows, c.sql)
  ELSE IF c.entry \in {"info", "http_info"} \/ (c.entry = "mcp_call" /\ c.query = "get_database_info")
  THEN CursorAfterInfo(conn, cursor, tableExists, tableRows)
  ELSE cursor

\* the effect of an executed statement on the table
ApplyDrop(dropped) ==
  /\ tableExists' = (tableExists /\ ~dropped)
  /\ tableRows' = IF dropped THEN <<>> ELSE tableRows

\* the query tool is called with q
ToolQuery(q) ==
  /\ call' = CallRecord("tool", q, NoLimit, QueryDatabase(conn, tableExists, tableRows, q))
  /\ ApplyDrop(call'.dropped)
  /\ cursor' = CursorAfterCall(call')
  /\ UNCHANGED <<dataset, logVars, startup, conn, requests>>
  /\ UNCHANGED agentVars

\* the MCP server's query tool is called with q
McpQuery(q) ==
  /\ call' = CallRecord("mcp", q, NoLimit, McpQueryDatabase(conn, tableExists, tableRows, q))
  /\ ApplyDrop(call'.dropped)
  /\ cursor' = CursorAfterCall(call')
  /\ UNCHANGED <<dataset, logVars, startup, conn, requests>>
  /\ UNCHANGED agentVars

\* tool names sent to the MCP server besides query_database
McpNames == {"get_database_info", "web_search", ""}

\* the record of such a call; when it raised, envelope.error is the message of
\* the exception and nothing was returned
McpCallRecord(name, out) ==
  [NoCall EXCEPT !.entry = "mcp_call", !.query = name, !.raised = out.raised,
                 !.envelope = ErrEnvelope(out.error), !.text = out.text]

\* the MCP server is asked for the tool of that name
McpCall(name) ==
  /\ call' = McpCallRecord(name, McpDispatch(conn, tableExists, tableRows, name))
  /\ cursor' = CursorAfterCall(call')
  /\ UNCHANGED <<dataset, logVars, startup, conn, tableExists, tableRows, requests>>
  /\ UNCHANGED agentVars

\* POST /query with body {sql: q, limit: limit}
HttpQuery(q, limit) ==
  /\ call' = CallRecord("http", q, limit, EndpointQuery(conn, tableExists, tableRows, q, limit))
  /\ ApplyDrop(call'.dropped)
  /\ cursor' = CursorAfterCall(call')
  /\ UNCHANGED <<dataset, logVars, startup, conn, requests>>
  /\ UNCHANGED agentVars

\* GET /db/info: TableInfoResponse(**info) with status 200, or
\* HTTPException(500) whose detail is the message of the exception
EndpointInfo(c, exists, rows) ==
  LET info == GetTableInfo(c, exists, rows)
  IN IF info.raised
     THEN [NoCall EXCEPT !.entry = "http_info", !.raised = TRUE,
                         !.envelope = ErrEnvelope(info.error), !.text = "500"]
     ELSE [NoCall EXCEPT !.entry = "http_info",
                         !.envelope = [success |-> TRUE, row_count |-> info.row_count,
                                       error |-> "", message |-> "attacks",
                                       data |-> info.columns],
                         !.text = "200"]

\* the endpoint is called
HttpInfo ==
  /\ call' = EndpointInfo(conn, tableExists, tableRows)
  /\ cursor' = CursorAfterCall(call')
  /\ UNCHANGED <<dataset, logVars, startup, conn, tableExists, tableRows, requests>>
  /\ UNCHANGED agentVars

StoreNext ==
  \/ \E present \in BOOLEAN, n \in RowCounts : Initialize(present, n)
  \/ Close
  \/ \E q \in Queries : ToolQuery(q)
  \/ \E q \in Queries : McpQuery(q)
  \/ \E name \in McpNames : McpCall(name)
  \/ \E q \in Queries, limit \in Limits : HttpQuery(q, limit)
  \/ HttpInfo

SpecStore == StoreInit /\ [][StoreNext]_vars

\* the most full batches in a dataset file loaded
MaxBatches == 2

\* data row counts around the batch size: none, less than a batch, whole
\* batches, whole batches and a remainder
LoadCounts ==
  {0, 1, BatchSize \div 2}
  \cup UNION { {k * BatchSize - 1, k * BatchSize, k * BatchSize + 1, k * BatchSize + BatchSize \div 2}
               : k \in 1..MaxBatches }

\* initialize() finds the dataset file with n data rows
LoadDataset(n) == dataset = None /\ Initialize(TRUE, n)

LoadNext ==
  \/ \E n \in LoadCounts : LoadDataset(n)
  \/ ToolQuery("SELECT * FROM attacks")
  \/ \E name \in McpNames : McpCall(name)
  \/ Close

SpecLoad == StoreInit /\ [][LoadNext]_vars

\* the logger of a process that has just been started
SpecLogger == StoreInit /\ [][LoggerNext]_vars

(***************************************************************************)
(* DatabaseService.query and DatabaseService.get_table_info called by      *)
(* concurrent requests: their statements interleave on the one cursor that *)
(* initialize created                                                      *)
(***************************************************************************)
\* query strings the tools receive in concurrent requests
ConcurrentQueries ==
  { "SELECT * FROM attacks",
    "SELECT COUNT(*) FROM attacks WHERE \"Attack Type\" = 'Malware'",
    "DROP TABLE attacks --",
    "SELEC * FROM attacks" }

\* the two statements of get_table_info
TableInfoSql == "PRAGMA table_info(attacks)"
RowCountSql == "SELECT COUNT(*) FROM attacks"

\* PRAGMA table_info(attacks): a row (cid, name, type, notnull, dflt_value, pk)
\* for each column of the table, and no row when there is no such table
PragmaTableInfo(exists) ==
  SqlRows(<<"cid", "name", "type", "notnull", "dflt_value", "pk">>,
          IF exists
          THEN [i \in 1..Len(Columns) |->
                  <<IntValue(i - 1), TextVal(Columns[i]), TextVal("TEXT"), IntValue(0),
                    NullVal, IntValue(0)>>]
          ELSE <<>>)

\* self.cursor.execute(sql) of query or of get_table_info
RunStatement(exists, rows, sql) ==
  IF sql = TableInfoSql THEN PragmaTableInfo(exists) ELSE ExecuteSql(exists, rows, sql)

\* row_count = self.cursor.fetchone()[0] and the dict returned, columns being
\* the rows fetchall returned and counted the row fetchone found, if any
TableInfo(columns, counted) ==
  IF counted = <<>>
  THEN [raised |-> TRUE, error |-> "'NoneType' object is not subscriptable", info |-> NoInfo]
  ELSE IF \E i \in 1..Len(columns) : Len(columns[i]) < 3
  THEN [raised |-> TRUE, error |-> "tuple index out of range", info |-> NoInfo]
  ELSE [raised |-> FALSE, error |-> "",
        info |-> [columns |-> [i \in 1..Len(columns) |->
                                 [name |-> columns[i][2], type |-> columns[i][3]]],
                  row_count |-> counted[1][1]]]

\* the application after startup_event, no request under way
CursorInit ==
  /\ conn = "open" /\ tableExists = TRUE /\ tableRows = LoadCsv(CsvRows(3)) /\ call = NoCall
  /\ cursor = EmptyCursor /\ requests = NoRequests /\ startup = "ready"
  /\ dataset = [present |-> TRUE, rows |-> CsvRows(3)]
  /\ IdleLogger
  /\ IdleAgent

\* raise: the call of request t ends with an exception
QueryRaise(t, error) ==
  requests' = [requests EXCEPT ![t].pc = "done", ![t].raised = TRUE, ![t].error = error]

\* request t calls db.query(sql) with the statement its tool built: lines 90-91
QueryEnter(t, query) ==
  /\ requests[t].pc = "idle"
  /\ IF conn = "none"
     THEN QueryRaise(t, "Database not initialized")
     ELSE requests' = [requests EXCEPT ![t].pc = "execute", ![t].sql = WithLimit(query),
                                       ![t].own = ExecuteSql(tableExists, tableRows,
                                                             WithLimit(query))]
  /\ UNCHANGED <<dataset, logVars, startup, conn, tableExists, tableRows, call, cursor>>
  /\ UNCHANGED agentVars

\* request t calls db.get_table_info(): lines 104-105, the PRAGMA comes first
InfoEnter(t) ==
  /\ requests[t].pc = "idle"
  /\ IF conn = "none"
     THEN requests' = [requests EXCEPT ![t].pc = "done", ![t].kind = "info",
                                       ![t].raised = TRUE,
                                       ![t].error = "Database not initialized"]
     ELSE requests' = [requests EXCEPT ![t].pc = "execute", ![t].kind = "info",
                                       ![t].sql = TableInfoSql]
  /\ UNCHANGED <<dataset, logVars, startup, conn, tableExists, tableRows, call, cursor>>
  /\ UNCHANGED agentVars

\* a request is inside cursor.execute, which holds the cursor while the
\* statement is prepared and run
CursorLocked == \E u \in RequestIds : requests[u].pc = "executing"

\* sqlite3.ProgrammingError of a cursor used while it is locked
RecursiveUse == "Recursive use of cursors not allowed."

\* the interpreter dies: no request of the process returns
Killed == [u \in RequestIds |-> [requests[u] EXCEPT !.pc = "killed"]]

\* request t calls the cursor while another request is inside execute: the
\* call is refused with an exception
LockedUse(t) ==
  [requests EXCEPT ![t].pc = "done", ![t].raised = TRUE, ![t].error = RecursiveUse]

\* request t calls the cursor while the other request is inside one of its
\* calls of the cursor: the connection is opened with check_same_thread=False
\* and nothing serialises the two threads
Racing(t) ==
  \E u \in RequestIds \ {t} : requests[u].pc \in {"executing", "fetch", "fetchone"}

\* the calls of the requests in S have read the statement of the cursor while
\* the other thread was resetting it: what they return or raise is what that
\* memory held (values that are NULL, empty or undecodable, rows missing or
\* repeated), not the rows of any statement
Garbled(reqs, S) ==
  [u \in RequestIds |-> IF u \in S THEN [reqs[u] EXCEPT !.garbled = TRUE] ELSE reqs[u]]

\* a call of the cursor by request t, reqs being what it leaves when the two
\* threads do not meet inside the cursor: when they do, the data race also
\* garbles the call of either request, or takes the process down
CursorUse(t, reqs) ==
  IF Racing(t)
  THEN requests' \in {Killed} \cup {Garbled(reqs, S) : S \in SUBSET RequestIds}
  ELSE requests' = reqs

\* self.cursor.execute(...) of request t is entered, in query or in
\* get_table_info: the cursor is taken and drops what it held
CursorExecute(t) ==
  /\ requests[t].pc = "execute"
  /\ IF CursorLocked
     THEN CursorUse(t, LockedUse(t)) /\ UNCHANGED cursor
     ELSE /\ CursorUse(t, [requests EXCEPT ![t].pc = "executing"])
          /\ cursor' = EmptyCursor
  /\ UNCHANGED <<dataset, logVars, startup, conn, call, tableExists, tableRows>>
  /\ UNCHANGED agentVars

\* the statement that follows the execute of request req: query reads the
\* description, get_table_info calls fetchall after the PRAGMA and fetchone
\* after the COUNT
AfterExecute(req) ==
  IF req.kind = "query" THEN "description"
  ELSE IF req.sql = TableInfoSql THEN "fetch"
  ELSE "fetchone"

\* execute of request t runs its statement and returns or raises: the cursor
\* takes the outcome of this statement
CursorExecuted(t) ==
  /\ requests[t].pc = "executing"
  /\ LET r == RunStatement(tableExists, tableRows, requests[t].sql)
     IN IF ~r.ok
        THEN /\ requests' = [requests EXCEPT ![t].pc = "done", ![t].raised = TRUE,
                                             ![t].error = r.error, ![t].own = r]
             /\ cursor' = EmptyCursor
             /\ UNCHANGED <<tableExists, tableRows>>
        ELSE /\ requests' = [requests EXCEPT
                               ![t].pc = AfterExecute(requests[t]), ![t].own = r,
                               ![t].pragma = IF requests[t].sql = TableInfoSql THEN r ELSE @]
             /\ cursor' = [description |-> r.description, columns |-> r.columns,
                           rows |-> r.rows]
             /\ ApplyDrop(r.dropped)
  /\ UNCHANGED <<dataset, logVars, startup, conn, call>>
  /\ UNCHANGED agentVars

\* columns = [description[0] for description in self.cursor.description]
ReadDescription(t) ==
  /\ requests[t].pc = "description"
  /\ IF ~cursor.description
     THEN QueryRaise(t, "'NoneType' object is not iterable")
     ELSE requests' = [requests EXCEPT ![t].pc = "fetch", ![t].columns = cursor.columns]
  /\ UNCHANGED <<dataset, logVars, startup, conn, tableExists, tableRows, call, cursor>>
  /\ UNCHANGED agentVars

\* fetchall has found no further row in the cursor: query zips the rows it
\* took with the columns read before and returns, get_table_info goes on to
\* count the rows
Fetched(req) ==
  IF req.kind = "query"
  THEN [req EXCEPT !.pc = "done", !.results = ZipAll(req.columns, req.fetched)]
  ELSE [req EXCEPT !.pc = "execute", !.sql = RowCountSql]

\* self.cursor.fetchall() of request t, one row of the cursor at a time: the
\* other request runs between two rows, so the rows taken are those the
\* cursor holds when each is asked for; the call is refused while the other
\* request is inside execute
FetchAll(t) ==
  /\ requests[t].pc = "fetch"
  /\ IF CursorLocked
     THEN CursorUse(t, LockedUse(t)) /\ UNCHANGED cursor
     ELSE IF cursor.rows # <<>>
     THEN /\ CursorUse(t, [requests EXCEPT ![t].fetched = Append(@, Head(cursor.rows))])
          /\ cursor' = [cursor EXCEPT !.rows = Tail(@)]
     ELSE /\ CursorUse(t, [requests EXCEPT ![t] = Fetched(requests[t])])
          /\ UNCHANGED cursor
  /\ UNCHANGED <<dataset, logVars, startup, conn, tableExists, tableRows, call>>
  /\ UNCHANGED agentVars

\* get_table_info of request t after the COUNT was executed: fetchone takes
\* the next row of the cursor, and the dict is built and returned
FetchOne(t) ==
  /\ requests[t].pc = "fetchone"
  /\ IF CursorLocked
     THEN CursorUse(t, LockedUse(t)) /\ UNCHANGED cursor
     ELSE /\ LET out == TableInfo(requests[t].fetched, Take(cursor.rows, 1))
             IN CursorUse(t, [requests EXCEPT ![t].pc = "done", ![t].raised = out.raised,
                                              ![t].error = out.error, ![t].info = out.info])
          /\ cursor' = [cursor EXCEPT !.rows = IF @ = <<>> THEN <<>> ELSE Tail(@)]
  /\ UNCHANGED <<dataset, logVars, startup, conn, tableExists, tableRows, call>>
  /\ UNCHANGED agentVars

CursorNext ==
  \/ \E t \in RequestIds, q \in ConcurrentQueries : QueryEnter(t, q)
  \/ \E t \in RequestIds : InfoEnter(t)
  \/ \E t \in RequestIds : CursorExecute(t)
  \/ \E t \in RequestIds : CursorExecuted(t)
  \/ \E t \in RequestIds : ReadDescription(t)
  \/ \E t \in RequestIds : FetchAll(t)
  \/ \E t \in RequestIds : FetchOne(t)

SpecCursor == CursorInit /\ [][CursorNext]_vars

(***************************************************************************)
(* Messages, model responses and envelopes                                 *)
(***************************************************************************)
\* the opening sentence of each prompt; the text is opaque to the loops
LLM_AGENT_SYSTEM_PROMPT == "You are a cybersecurity expert assistant (llm)."
REACT_AGENT_SYSTEM_PROMPT == "You are a cybersecurity expert assistant (react)."

\* agents/base.py
Message(role, content) == [role |-> role, content |-> content]

AgentResponse(content, usage, metadata) ==
  [message |-> Message("assistant", content), usage |-> usage, metadata |-> metadata]

\* langchain_core.messages, as the loops use them
SystemMessage(content) ==
  [type |-> "system", content |-> content, tool_calls |-> <<>>, tool_call_id |-> ""]
HumanMessage(content) ==
  [type |-> "human", content |-> content, tool_calls |-> <<>>, tool_call_id |-> ""]
AIMessage(content) ==
  [type |-> "ai", content |-> content, tool_calls |-> <<>>, tool_call_id |-> ""]
\* a tool message that leaves out the id of the call it answers
ToolMessageNoId(content, tool_call_id) ==
  [type |-> "tool", content |-> content, tool_calls |-> <<>>, tool_call_id |-> ""]

ToolMessage(content, tool_call_id) ==
  [type |-> "tool", content |-> content, tool_calls |-> <<>>, tool_call_id |-> tool_call_id]

\* a dict as its items in insertion order, and dict.get(key, default)
Item(key, value) == [key |-> key, value |-> value]
DictGet(d, key, default) ==
  IF \E i \in 1..Len(d) : d[i].key = key
  THEN d[Highest({i \in 1..Len(d) : d[i].key = key})].value
  ELSE default

\* what a call of a method leaves its caller with
Returned(value) == [kind |-> "returned", value |-> value]
Raised(error) == [kind |-> "raised", error |-> error]
Exhausted == [kind |-> "exhausted"]

\* the model backend: the outcome of one invocation is a response (an AIMessage
\* with its tool calls and response metadata) or an exception
ToolCall(name, args, id) == [name |-> name, args |-> args, id |-> id]

TokenUsage(prompt, completion) ==
  [prompt_tokens |-> prompt, completion_tokens |-> completion,
   total_tokens |-> prompt + completion]

ModelResponse(content, tool_calls, token_usage) ==
  [fails |-> FALSE, error |-> "", type |-> "ai", content |-> content,
   tool_calls |-> tool_calls, tool_call_id |-> "", token_usage |-> token_usage]

ModelFailure(error) ==
  [fails |-> TRUE, error |-> error, type |-> "ai", content |-> "",
   tool_calls |-> <<>>, tool_call_id |-> "", token_usage |-> None]

AnswerText == "Malware is the most common attack type: 2 of the 3 recorded attacks."

QueryRequest ==
  ModelResponse("", <<ToolCall("query_database",
                               <<Item("query", "SELECT * FROM attacks")>>, "call_1")>>,
                TokenUsage(40, 9))

InfoRequest ==
  ModelResponse("Let me check.",
                <<ToolCall("get_database_info", <<>>, "call_2"),
                  ToolCall("web_search", <<Item("q", "malware")>>, "call_3")>>,
                None)

\* outcomes of one invocation of the chat model bound to the tools
ModelOutputs ==
  { ModelResponse(AnswerText, <<>>, TokenUsage(52, 17)),
    ModelResponse("", <<>>, None),
    QueryRequest,
    InfoRequest,
    ModelFailure("Connection error.") }

\* requests for the tools ReACTAgent binds, under the names their factories
\* give them: the query tool with one argument, the info tool with none
ReactQueryRequest ==
  ModelResponse("", <<ToolCall("QueryDatabase",
                               <<Item("__arg1", "SELECT * FROM attacks")>>, "call_4")>>,
                TokenUsage(40, 9))

ReactInfoRequest ==
  ModelResponse("", <<ToolCall("GetDatabaseInfo", <<>>, "call_5")>>, None)

\* outcomes of one invocation of the chat model bound to the tools of ReACTAgent
ReactOutputs == ModelOutputs \cup {ReactQueryRequest, ReactInfoRequest}

\* a streamed call that delivers the first pieces of its text and then raises
LateFailure == [ModelFailure("Connection error.") EXCEPT !.content = AnswerText]

\* the code fence of a Markdown block: three backquotes, a character that a
\* TLA+ string cannot hold and that is written ~ here
Fence == "~~~"

\* outcomes of one kickoff of a crew: str(result), or the exception of a failed call
CrewOutputs ==
  { ModelResponse(AnswerText, <<>>, None),
    ModelResponse("No database query needed.\n", <<>>, None),
    ModelResponse(Fence \o "sql\nSELECT COUNT(*) FROM attacks\n" \o Fence, <<>>, None),
    ModelResponse("", <<>>, None),
    ModelFailure("Connection error.") }

\* the pieces a streamed call delivers: chunks without content around the text
StreamChunks(out) ==
  << "",
     SubSeq(out.content, 1, Len(out.content) \div 2),
     SubSeq(out.content, (Len(out.content) \div 2) + 1, Len(out.content)),
     "" >>

NonEmpty(piece) == piece # ""

\* for chunk in llm_with_tools.stream(...): the pieces that arrive before the
\* stream ends, or before it raises
Delivered(out) ==
  IF ~out.fails THEN StreamChunks(out)
  ELSE IF out.content = "" THEN <<>>
  ELSE SubSeq(StreamChunks(out), 1, 2)

\* for i in range(0, len(content), chunk_size): content[i:i + chunk_size]
chunk_size == 30

Least(a, b) == IF a <= b THEN a ELSE b

Chunks(content) ==
  [k \in 1..((Len(content) + chunk_size - 1) \div chunk_size) |->
     SubSeq(content, (k - 1) * chunk_size + 1, Least(k * chunk_size, Len(content)))]

ErrorText(error) == "I encountered an error while processing your request: " \o error

\* the user and assistant turns of the history, as LangChain messages
IsTurn(m) == m.role \in {"user", "assistant"}

TurnMessage(m) == IF m.role = "user" THEN HumanMessage(m.content) ELSE AIMessage(m.content)

Conversation(messages) ==
  [i \in 1..Len(SelectSeq(messages, IsTurn)) |-> TurnMessage(SelectSeq(messages, IsTurn)[i])]

ReactMessages(messages) == <<SystemMessage(REACT_AGENT_SYSTEM_PROMPT)>> \o Conversation(messages)

SystemIndexes(messages) == {i \in 1..Len(messages) : messages[i].role = "system"}

\* a conversation that keeps every system message of the history in its place
LlmMessagesInPlace(messages) ==
  [i \in 1..Len(SelectSeq(messages, LAMBDA m : m.role \in {"system", "user", "assistant"})) |->
     LET m == SelectSeq(messages, LAMBDA x : x.role \in {"system", "user", "assistant"})[i]
     IN IF m.role = "system" THEN SystemMessage(m.content) ELSE TurnMessage(m)]

LlmMessages(messages) ==
  << SystemMessage(IF SystemIndexes(messages) = {} THEN LLM_AGENT_SYSTEM_PROMPT
                   ELSE messages[Highest(SystemIndexes(messages))].content) >>
  \o Conversation(messages)

\* MultiAgent.chat: the content of the last user message, or None
UserIndexes(messages) == {i \in 1..Len(messages) : messages[i].role = "user"}

LastUserMessage(messages) ==
  IF UserIndexes(messages) = {} THEN None
  ELSE [none |-> FALSE, content |-> messages[Highest(UserIndexes(messages))].content]

\* the usage dict LLMAgent.chat extracts from the last response
Usage(resp) ==
  IF resp.token_usage = None THEN <<>>
  ELSE << Item("prompt_tokens", resp.token_usage.prompt_tokens),
          Item("completion_tokens", resp.token_usage.completion_tokens),
          Item("total_tokens", resp.token_usage.total_tokens) >>

\* the names of the tools ReACTAgent binds, in the order of _create_tools
ReactToolNames == <<"QueryDatabase", "GetDatabaseInfo">>

\* while iteration < max_iterations
max_iterations == 5

WhileCondition(it) == it < max_iterations

\* the first message in place of the last
FinalMessageFirst(msgs) == msgs[1]

\* lc_messages.append(ToolMessage(...)): the turn goes to the end of the conversation
AppendTurn(msgs, turn) == Append(msgs, turn)

\* the final message of ReACTAgent.chat: lc_messages[-1]
FinalMessage(msgs) == msgs[Len(msgs)]

ReactError(error) ==
  AgentResponse(ErrorText(error), <<>>, [agent_type |-> "react", error |-> error])

MultiError(error) ==
  AgentResponse(ErrorText(error), <<>>, [agent_type |-> "multi", error |-> error])

\* json.dumps({"error": f"Unknown tool: {tool_name}"})
UnknownTool(tool_name) == "{\"error\": " \o JsonString("Unknown tool: " \o tool_name) \o "}"

\* MultiAgent.chat: the statement taken from the output of the query builder
CleanQuery(query_builder_output) == Strip(Remove(Remove(query_builder_output, Fence \o "sql"), Fence))

\* the same test without the conversion to upper case
NeedsQueryExactCase(query_builder_output) ==
  ~Contains(query_builder_output, "NO DATABASE QUERY NEEDED")

\* _create_tasks: what the description of the data retrieval task says about
\* the results of the query
DataContext(results) ==
  IF results = None THEN ""
  ELSE IF results.text = "" THEN ""
  ELSE "\n\nDatabase query results:\n" \o results.text

NeedsQuery(query_builder_output) == ~Contains(Upper(query_builder_output), "NO DATABASE QUERY NEEDED")

(***************************************************************************)
(* The agents as a state machine: one request, served by chat and by       *)
(* chat_stream against the same model backend                              *)
(***************************************************************************)
\* the most invocations followed in one call of LLMAgent.chat, whose loop has no cap
MaxInvocations == 6

Histories ==
  { <<>>,
    <<Message("user", "How many attacks are Malware?")>>,
    <<Message("system", "Answer briefly."), Message("user", "Hi"),
      Message("assistant", "Hello."), Message("user", "List the attack types.")>>,
    <<Message("user", "Hi"), Message("system", "Be terse."), Message("tool", "{}"),
      Message("system", "Answer in French."), Message("user", "")>> }

Outputs ==
  IF agent = "multi" THEN CrewOutputs
  ELSE IF agent = "react" THEN ReactOutputs
  ELSE ModelOutputs

\* the outcomes the next invocation can have: the backend repeats what it did
\* for the first method when the second one runs
Choices == IF invocations < Len(tape) THEN {tape[invocations + 1]} ELSE Outputs

\* the outcomes of the streamed call: it can also fail after its first pieces
StreamChoices ==
  IF invocations < Len(tape) THEN {tape[invocations + 1]} ELSE Outputs \cup {LateFailure}

Consume(out) ==
  /\ tape' = IF invocations < Len(tape) THEN tape ELSE Append(tape, out)
  /\ invocations' = invocations + 1
  /\ seen' = Append(seen, lc_messages)

\* the application after startup_event, with a request for one agent at hand
AgentInit ==
  /\ conn = "open" /\ tableExists = TRUE /\ tableRows = LoadCsv(CsvRows(3)) /\ call = NoCall
  /\ cursor = EmptyCursor /\ requests = NoRequests /\ startup = "ready"
  /\ dataset = [present |-> TRUE, rows |-> CsvRows(3)]
  /\ IdleLogger
  /\ agent \in {"llm", "react", "multi"} /\ history \in Histories
  /\ mode = "none" /\ pc = "idle"
  /\ lc_messages = <<>> /\ iteration = 0 /\ response = None /\ final_response = None
  /\ pending = <<>> /\ tool_calls_made = <<>> /\ db_results = None /\ outbox = <<>>
  /\ chunks = <<>> /\ result = None /\ tape = <<>> /\ invocations = 0 /\ toolRuns = 0
  /\ first = None /\ seen = <<>> /\ http = None

\* a caller invokes method m of the agent with the history; each method runs once
Call(m) ==
  /\ \/ pc = "idle" /\ first' = first
     \/ /\ pc = "done" /\ first = None /\ mode # m
        /\ first' = [mode |-> mode, result |-> result, chunks |-> chunks,
                     invocations |-> invocations, toolRuns |-> toolRuns]
  /\ mode' = m /\ pc' = "start"
  /\ lc_messages' = <<>> /\ iteration' = 0 /\ response' = None /\ final_response' = None
  /\ pending' = <<>> /\ tool_calls_made' = <<>> /\ db_results' = None /\ outbox' = <<>>
  /\ chunks' = <<>> /\ result' = None /\ invocations' = 0 /\ toolRuns' = 0
  /\ seen' = <<>>
  /\ UNCHANGED <<agent, history, tape, http>>
  /\ UNCHANGED storeVars

CallChat == mode # "chat" /\ Call("chat")

\* the fields of ChatRequest (models/schemas.py); any other attribute of the
\* request raises AttributeError
ChatRequestFields == {"history", "agent_type", "model", "temperature", "max_tokens"}

\* the keys of the agents dict of get_agent_by_type
AgentTypes == {"llm", "react", "multi"}

\* the values of the agents dict of get_agent_by_type
AgentClass(agent_type) ==
  CASE agent_type = "llm" -> "LLMAgent"
    [] agent_type = "react" -> "ReACTAgent"
    [] agent_type = "multi" -> "MultiAgent"

\* get_agent_type() of an instance of the class
GetAgentType(class) ==
  CASE class = "LLMAgent" -> "llm"
    [] class = "ReACTAgent" -> "react"
    [] class = "MultiAgent" -> "multi"

\* a lookup that falls back to the llm agent for a type that is not a key
GetAgentByTypeOrDefault(agent_type) ==
  [raised |-> FALSE, error |-> "",
   constructed |-> [class |-> IF agent_type \in AgentTypes THEN AgentClass(agent_type)
                              ELSE "LLMAgent"]]

\* get_agent_by_type(agent_type): an instance of the class, or ValueError
GetAgentByType(agent_type) ==
  IF agent_type \notin AgentTypes
  THEN [raised |-> TRUE, error |-> "Unknown agent type: " \o agent_type, constructed |-> None]
  ELSE [raised |-> FALSE, error |-> "",
        constructed |-> [class |-> AgentClass(agent_type)]]

\* agent_type values of requests, and values of config.OPENAI_API_KEY
RequestedTypes == AgentTypes \cup {"rag"}
ApiKeys == {"", "sk-test"}

\* raise HTTPException(status_code, ...) out of the handler, after the
\* exception of that class was caught
HttpError(status_code, caught) ==
  [status_code |-> status_code, streaming |-> FALSE, caught |-> caught]

StreamingResponse == [status_code |-> 200, streaming |-> TRUE, caught |-> ""]

\* POST /chat, lines 95-179: the response of the handler
ChatEndpoint(agent_type, api_key) ==
  IF api_key = "" THEN HttpError(500, "HTTPException")
  ELSE IF GetAgentByType(agent_type).raised THEN HttpError(400, "ValueError")
  ELSE IF "enable_visualizations" \notin ChatRequestFields THEN HttpError(500, "AttributeError")
  ELSE StreamingResponse

\* detail=str(e) of the HTTPException raised by the except clauses; the str
\* of an HTTPException is "<status_code>: <detail>"
ChatDetail(agent_type, api_key) ==
  IF api_key = "" THEN "500: OPENAI_API_KEY not configured"
  ELSE IF GetAgentByType(agent_type).raised THEN GetAgentByType(agent_type).error
  ELSE IF "enable_visualizations" \notin ChatRequestFields
  THEN "'ChatRequest' object has no attribute 'enable_visualizations'"
  ELSE ""

\* the agent the handler holds: none when it left before line 123 returned
ChatAgent(agent_type, api_key) ==
  IF api_key = "" THEN None ELSE GetAgentByType(agent_type).constructed

\* a client posts the request to /chat; the handler answers with an HTTP
\* error, or with a stream fed by chat_stream of the agent
PostChat(agent_type, api_key) ==
  /\ pc = "idle" /\ http = None
  /\ agent_type \in {agent, "rag"}
  /\ http' = [agent_type |-> agent_type, api_key |-> api_key,
              response |-> ChatEndpoint(agent_type, api_key),
              detail |-> ChatDetail(agent_type, api_key),
              constructed |-> ChatAgent(agent_type, api_key)]
  /\ IF http'.response.streaming
     THEN mode' = "stream" /\ pc' = "start"
     ELSE mode' = mode /\ pc' = "refused"
  /\ UNCHANGED <<agent, history, first, seen, lc_messages, iteration, response,
                 final_response, pending, tool_calls_made, db_results, outbox, chunks,
                 result, tape, invocations, toolRuns>>
  /\ UNCHANGED storeVars

CallStream == mode # "stream" /\ Call("stream")

\* if final_response and final_response.content
HasContent(resp) == IF resp = None THEN FALSE ELSE resp.content # ""

\* the loop of a method is over: it broke out, or its while condition is false
LoopEnded == pc = "after" \/ (pc = "loop" /\ ~WhileCondition(iteration))

InfoCall(text) == [NoCall EXCEPT !.entry = "info", !.text = text]

UnknownCall(text) == [NoCall EXCEPT !.entry = "unknown", !.text = text]

QueryCall(query) ==
  CallRecord("tool", query, NoLimit, QueryDatabase(conn, tableExists, tableRows, query))

\* LLMAgent._execute_tool(tool_name, tool_arguments); the result is call'.text
ExecuteTool(tool_name, tool_arguments) ==
  /\ call' = IF tool_name = "query_database"
             THEN QueryCall(DictGet(tool_arguments, "query", ""))
             ELSE IF tool_name = "get_database_info"
             THEN InfoCall(GetDatabaseInfo(conn, tableExists, tableRows))
             ELSE UnknownCall(UnknownTool(tool_name))
  /\ ApplyDrop(call'.dropped)
  /\ cursor' = CursorAfterCall(call')
  /\ UNCHANGED <<dataset, logVars, startup, conn, requests>>

\* repr of a Python list of strings (no backslash, not both kinds of quote)
PyRepr(text) ==
  IF Contains(text, "'") /\ ~Contains(text, "\"") THEN "\"" \o text \o "\"" ELSE "'" \o text \o "'"

ListRepr(values) == "[" \o JoinLines([i \in 1..Len(values) |-> PyRepr(values[i])], ", ") \o "]"

\* the values of the arguments of a tool call, in the order of the mapping
ArgValues(tool_args) == [i \in 1..Len(tool_args) |-> tool_args[i].value]

\* Tool(name, func): a single-input tool refuses a call whose arguments are
\* not exactly one value
TooManyArguments(tool_name, tool_args) ==
  "Too many arguments to single-input tool " \o tool_name
  \o ".\n                Consider using StructuredTool instead. Args: "
  \o ListRepr(ArgValues(tool_args))

\* get_database_info() called with the one value of the call
InfoTakesNoArgument == "get_database_info() takes 0 positional arguments but 1 was given"

\* tool.invoke(tool_args) ends with an exception: the call does not carry
\* exactly one value, or the value goes to a function without parameters
InvokeRaises(tool_name, tool_args) ==
  \/ tool_name = ReactToolNames[1] /\ Len(tool_args) # 1
  \/ tool_name = ReactToolNames[2]

InvokeError(tool_name, tool_args) ==
  IF Len(tool_args) # 1 THEN TooManyArguments(tool_name, tool_args) ELSE InfoTakesNoArgument

RaisedCall(error) ==
  [NoCall EXCEPT !.entry = "invoke", !.raised = TRUE, !.envelope = ErrEnvelope(error)]

\* ReACTAgent: the tool of that name is invoked with the one value of the
\* call, else tool_result stays None; call'.text is str(tool_result), and
\* call'.raised tells that invoke raised
InvokeTool(tool_name, tool_args) ==
  /\ call' = IF InvokeRaises(tool_name, tool_args)
             THEN RaisedCall(InvokeError(tool_name, tool_args))
             ELSE IF tool_name = ReactToolNames[1]
             THEN QueryCall(tool_args[1].value)
             ELSE UnknownCall("None")
  /\ ApplyDrop(call'.dropped)
  /\ cursor' = CursorAfterCall(call')
  /\ UNCHANGED <<dataset, logVars, startup, conn, requests>>

\* a generator suspended in its chunk loop hands over the next chunk, or ends;
\* outbox holds what is still to come (for a streamed call: the pieces the
\* backend has yet to deliver), and at "breaking" the stream raises after them
YieldStep ==
  /\ pc \in {"yield", "breaking"}
  /\ IF outbox = <<>>
     THEN /\ result' = IF pc = "breaking" THEN Raised(tape[invocations].error) ELSE Exhausted
          /\ pc' = "done"
          /\ UNCHANGED <<chunks, outbox>>
     ELSE /\ chunks' = Append(chunks, Head(outbox)) /\ outbox' = Tail(outbox)
          /\ UNCHANGED <<result, pc>>
  /\ UNCHANGED <<agent, mode, history, first, http, seen, lc_messages, iteration, response,
                 final_response, pending, tool_calls_made, db_results, tape,
                 invocations, toolRuns>>
  /\ UNCHANGED storeVars

(***************************************************************************)
(* ReACTAgent                                                              *)
(***************************************************************************)
\* the same answer without the error entry in its metadata
NoMessagesNoError ==
  AgentResponse("No messages provided.", <<>>, [agent_type |-> "react"])

NoMessages ==
  AgentResponse("No messages provided.", <<>>, [agent_type |-> "react", error |-> "No messages"])

\* chat: the conversion of the history and the early return
ReactChatStart ==
  /\ agent = "react" /\ mode = "chat" /\ pc = "start"
  /\ lc_messages' = ReactMessages(history)
  /\ IF Len(lc_messages') = 1
     THEN result' = Returned(NoMessages) /\ pc' = "done"
     ELSE pc' = "loop" /\ UNCHANGED result
  /\ iteration' = 0
  /\ UNCHANGED <<agent, mode, history, first, http, seen, response, final_response, pending,
                 tool_calls_made, db_results, outbox, chunks, tape, invocations, toolRuns>>
  /\ UNCHANGED storeVars

\* chat: one pass of the loop up to the tool calls
ReactChatInvoke ==
  /\ agent = "react" /\ mode = "chat" /\ pc = "loop" /\ WhileCondition(iteration)
  /\ iteration' = iteration + 1
  /\ \E out \in Choices :
       /\ Consume(out)
       /\ IF out.fails
          THEN /\ result' = Returned(ReactError(out.error)) /\ pc' = "done"
               /\ UNCHANGED <<response, lc_messages, pending>>
          ELSE /\ response' = out
               /\ lc_messages' = Append(lc_messages, out)
               /\ pending' = out.tool_calls
               /\ pc' = IF out.tool_calls = <<>> THEN "after" ELSE "tools"
               /\ UNCHANGED result
  /\ UNCHANGED <<agent, mode, history, first, http, final_response, tool_calls_made,
                 db_results, outbox, chunks, toolRuns>>
  /\ UNCHANGED storeVars

\* the body of for tool_call in response.tool_calls, for one tool call; an
\* exception of tool.invoke goes to the except clause of the method, which
\* returns the error envelope (chat) or yields the error text (chat_stream)
ReactToolStep ==
  /\ pc = "tools"
  /\ InvokeTool(Head(pending).name, Head(pending).args)
  /\ IF call'.raised
     THEN /\ IF mode = "chat"
             THEN /\ result' = Returned(ReactError(call'.envelope.error)) /\ pc' = "done"
                  /\ UNCHANGED outbox
             ELSE /\ outbox' = <<ErrorText(call'.envelope.error)>> /\ pc' = "yield"
                  /\ UNCHANGED result
          /\ UNCHANGED <<lc_messages, pending, toolRuns>>
     ELSE /\ lc_messages' = AppendTurn(lc_messages, ToolMessage(call'.text, Head(pending).id))
          /\ pending' = Tail(pending)
          /\ toolRuns' = toolRuns + 1
          /\ pc' = IF Tail(pending) = <<>> THEN "loop" ELSE "tools"
          /\ UNCHANGED <<outbox, result>>
  /\ UNCHANGED <<agent, mode, history, first, http, seen, iteration, response, final_response,
                 tool_calls_made, db_results, chunks, tape, invocations>>

ReactChatTool == agent = "react" /\ mode = "chat" /\ ReactToolStep

\* chat: the envelope built after the loop
ReactChatReturn ==
  /\ agent = "react" /\ mode = "chat" /\ LoopEnded
  /\ result' = Returned(AgentResponse(FinalMessage(lc_messages).content, <<>>,
                                      [agent_type |-> "react",
                                       tools_used |-> ReactToolNames,
                                       iterations |-> iteration]))
  /\ pc' = "done"
  /\ UNCHANGED <<agent, mode, history, first, http, seen, lc_messages, iteration, response,
                 final_response, pending, tool_calls_made, db_results, outbox, chunks,
                 tape, invocations, toolRuns>>
  /\ UNCHANGED storeVars

\* chat_stream: the conversion of the history and the early return
ReactStreamStart ==
  /\ agent = "react" /\ mode = "stream" /\ pc = "start"
  /\ lc_messages' = ReactMessages(history)
  /\ IF Len(lc_messages') = 1
     THEN outbox' = <<"No messages provided.">> /\ pc' = "yield"
     ELSE pc' = "loop" /\ UNCHANGED outbox
  /\ iteration' = 0 /\ final_response' = None
  /\ UNCHANGED <<agent, mode, history, first, http, seen, response, pending, tool_calls_made,
                 db_results, chunks, result, tape, invocations, toolRuns>>
  /\ UNCHANGED storeVars

\* chat_stream: one pass of the loop up to the tool calls
ReactStreamInvoke ==
  /\ agent = "react" /\ mode = "stream" /\ pc = "loop" /\ WhileCondition(iteration)
  /\ iteration' = iteration + 1
  /\ \E out \in Choices :
       /\ Consume(out)
       /\ IF out.fails
          THEN /\ outbox' = <<ErrorText(out.error)>> /\ pc' = "yield"
               /\ UNCHANGED <<response, lc_messages, pending, final_response>>
          ELSE /\ response' = out
               /\ lc_messages' = Append(lc_messages, out)
               /\ pending' = out.tool_calls
               /\ final_response' = IF out.tool_calls = <<>> THEN out ELSE final_response
               /\ pc' = IF out.tool_calls = <<>> THEN "after" ELSE "tools"
               /\ UNCHANGED outbox
  /\ UNCHANGED <<agent, mode, history, first, http, tool_calls_made, db_results, chunks,
                 result, toolRuns>>
  /\ UNCHANGED storeVars

ReactStreamTool == agent = "react" /\ mode = "stream" /\ ReactToolStep

\* chat_stream: the content at hand is cut into chunks
ReactStreamContent ==
  /\ agent = "react" /\ mode = "stream" /\ LoopEnded
  /\ HasContent(final_response)
  /\ outbox' = Chunks(final_response.content)
  /\ pc' = "yield"
  /\ UNCHANGED <<agent, mode, history, first, http, seen, lc_messages, iteration, response,
                 final_response, pending, tool_calls_made, db_results, chunks, result,
                 tape, invocations, toolRuns>>
  /\ UNCHANGED storeVars

\* chat_stream: the streaming call made when there is no content at hand;
\* when the stream raises, the except clause yields the error text after the
\* pieces that came before
ReactStreamCall ==
  /\ agent = "react" /\ mode = "stream" /\ LoopEnded
  /\ ~HasContent(final_response)
  /\ \E out \in StreamChoices :
       /\ Consume(out)
       /\ outbox' = SelectSeq(Delivered(out), NonEmpty)
                    \o (IF out.fails THEN <<ErrorText(out.error)>> ELSE <<>>)
  /\ pc' = "yield"
  /\ UNCHANGED <<agent, mode, history, first, http, lc_messages, iteration, response,
                 final_response, pending, tool_calls_made, db_results, chunks, result,
                 toolRuns>>
  /\ UNCHANGED storeVars

ReactYield == agent = "react" /\ YieldStep

(***************************************************************************)
(* LLMAgent                                                                *)
(***************************************************************************)
\* chat: the conversion of the history
LlmChatStart ==
  /\ agent = "llm" /\ mode = "chat" /\ pc = "start"
  /\ lc_messages' = LlmMessages(history)
  /\ tool_calls_made' = <<>> /\ iteration' = 0
  /\ pc' = "loop"
  /\ UNCHANGED <<agent, mode, history, first, http, seen, response, final_response, pending,
                 db_results, outbox, chunks, result, tape, invocations, toolRuns>>
  /\ UNCHANGED storeVars

\* chat: an invocation of the model, the first or the one that closes a pass of
\* while response.tool_calls; nothing catches its exception
LlmChatInvoke ==
  /\ agent = "llm" /\ mode = "chat" /\ pc = "loop" /\ invocations < MaxInvocations
  /\ \E out \in Choices :
       /\ Consume(out)
       /\ IF out.fails
          THEN /\ result' = Raised(out.error) /\ pc' = "done"
               /\ UNCHANGED <<response, lc_messages, pending, iteration>>
          ELSE /\ response' = out
               /\ IF out.tool_calls # <<>>
                  THEN /\ iteration' = iteration + 1
                       /\ lc_messages' = Append(lc_messages, out)
                       /\ pending' = out.tool_calls
                       /\ pc' = "tools"
                  ELSE /\ pc' = "after"
                       /\ UNCHANGED <<iteration, lc_messages, pending>>
               /\ UNCHANGED result
  /\ UNCHANGED <<agent, mode, history, first, http, final_response, tool_calls_made,
                 db_results, outbox, chunks, toolRuns>>
  /\ UNCHANGED storeVars

\* a tool step that also hands the tool's result to the consumer as a chunk
LlmToolStepYielding ==
  /\ pc = "tools"
  /\ tool_calls_made' = Append(tool_calls_made, Head(pending).name)
  /\ ExecuteTool(Head(pending).name, Head(pending).args)
  /\ lc_messages' = AppendTurn(lc_messages, ToolMessage(call'.text, Head(pending).id))
  /\ pending' = Tail(pending)
  /\ toolRuns' = toolRuns + 1
  /\ chunks' = Append(chunks, call'.text)
  /\ pc' = IF Tail(pending) = <<>> THEN "loop" ELSE "tools"
  /\ UNCHANGED <<agent, mode, history, first, http, seen, iteration, response, final_response,
                 db_results, outbox, result, tape, invocations>>

\* the body of for idx, tool_call in enumerate(response.tool_calls, 1), for one tool call
LlmToolStep ==
  /\ pc = "tools"
  /\ tool_calls_made' = Append(tool_calls_made, Head(pending).name)
  /\ ExecuteTool(Head(pending).name, Head(pending).args)
  /\ lc_messages' = AppendTurn(lc_messages, ToolMessage(call'.text, Head(pending).id))
  /\ pending' = Tail(pending)
  /\ toolRuns' = toolRuns + 1
  /\ pc' = IF Tail(pending) = <<>> THEN "loop" ELSE "tools"
  /\ UNCHANGED <<agent, mode, history, first, http, seen, iteration, response, final_response,
                 db_results, outbox, chunks, result, tape, invocations>>

LlmChatTool == agent = "llm" /\ mode = "chat" /\ LlmToolStep

\* chat: the envelope built from the last response
LlmChatReturn ==
  /\ agent = "llm" /\ mode = "chat" /\ pc = "after"
  /\ result' = Returned(AgentResponse(response.content, Usage(response),
                                      [agent_type |-> "llm",
                                       tools_used |-> tool_calls_made]))
  /\ pc' = "done"
  /\ UNCHANGED <<agent, mode, history, first, http, seen, lc_messages, iteration, response,
                 final_response, pending, tool_calls_made, db_results, outbox, chunks,
                 tape, invocations, toolRuns>>
  /\ UNCHANGED storeVars

\* chat_stream: the conversion of the history
LlmStreamStart ==
  /\ agent = "llm" /\ mode = "stream" /\ pc = "start"
  /\ lc_messages' = LlmMessages(history)
  /\ tool_calls_made' = <<>> /\ iteration' = 0 /\ final_response' = None
  /\ pc' = "loop"
  /\ UNCHANGED <<agent, mode, history, first, http, seen, response, pending, db_results, outbox,
                 chunks, result, tape, invocations, toolRuns>>
  /\ UNCHANGED storeVars

\* chat_stream: one pass of the loop up to the tool calls; nothing catches the
\* exception of the invocation
LlmStreamInvoke ==
  /\ agent = "llm" /\ mode = "stream" /\ pc = "loop" /\ WhileCondition(iteration)
  /\ iteration' = iteration + 1
  /\ \E out \in Choices :
       /\ Consume(out)
       /\ IF out.fails
          THEN /\ result' = Raised(out.error) /\ pc' = "done"
               /\ UNCHANGED <<response, lc_messages, pending, final_response>>
          ELSE /\ response' = out
               /\ IF out.tool_calls # <<>>
                  THEN /\ lc_messages' = Append(lc_messages, out)
                       /\ pending' = out.tool_calls
                       /\ pc' = "tools"
                       /\ UNCHANGED final_response
                  ELSE /\ final_response' = out
                       /\ pc' = "after"
                       /\ UNCHANGED <<lc_messages, pending>>
               /\ UNCHANGED result
  /\ UNCHANGED <<agent, mode, history, first, http, tool_calls_made, db_results, outbox,
                 chunks, toolRuns>>
  /\ UNCHANGED storeVars

LlmStreamTool == agent = "llm" /\ mode = "stream" /\ LlmToolStep

\* chat_stream: the content at hand is cut into chunks
LlmStreamContent ==
  /\ agent = "llm" /\ mode = "stream" /\ LoopEnded
  /\ HasContent(final_response)
  /\ outbox' = Chunks(final_response.content)
  /\ pc' = "yield"
  /\ UNCHANGED <<agent, mode, history, first, http, seen, lc_messages, iteration, response,
                 final_response, pending, tool_calls_made, db_results, chunks, result,
                 tape, invocations, toolRuns>>
  /\ UNCHANGED storeVars

\* chat_stream: the streaming call made when there is no content at hand;
\* nothing catches its exception, which comes after the pieces that were
\* delivered before the stream raised
LlmStreamCall ==
  /\ agent = "llm" /\ mode = "stream" /\ LoopEnded
  /\ ~HasContent(final_response)
  /\ \E out \in StreamChoices :
       /\ Consume(out)
       /\ IF out.fails /\ SelectSeq(Delivered(out), NonEmpty) = <<>>
          THEN result' = Raised(out.error) /\ pc' = "done" /\ UNCHANGED outbox
          ELSE /\ outbox' = SelectSeq(Delivered(out), NonEmpty)
               /\ pc' = IF out.fails THEN "breaking" ELSE "yield"
               /\ UNCHANGED result
  /\ UNCHANGED <<agent, mode, history, first, http, lc_messages, iteration, response,
                 final_response, pending, tool_calls_made, db_results, chunks, toolRuns>>
  /\ UNCHANGED storeVars

LlmYield == agent = "llm" /\ YieldStep

(***************************************************************************)
(* MultiAgent                                                              *)
(***************************************************************************)
NoUserMessage ==
  AgentResponse("No user message found.", <<>>, [agent_type |-> "multi", error |-> "No user input"])

\* the arrows of the pipeline text are written -> here
Report(final_output) ==
  AgentResponse(final_output, <<>>,
                [agent_type |-> "multi",
                 pipeline |-> "interpreter->query_builder->data_retrieval->analyst->reporter",
                 framework |-> "crewai",
                 database_query_executed |-> db_results # None])

\* chat hands its envelope to its caller: the caller of the agent, or chat_stream
MultiReturn(envelope) ==
  IF mode = "chat"
  THEN result' = Returned(envelope) /\ pc' = "done" /\ UNCHANGED response
  ELSE response' = envelope /\ pc' = "chunk" /\ UNCHANGED result

\* chat: the last user message is looked up
MultiStart ==
  /\ agent = "multi" /\ pc = "start"
  /\ IF ~HasContent(LastUserMessage(history))
     THEN MultiReturn(NoUserMessage)
     ELSE pc' = "crew1" /\ UNCHANGED <<result, response>>
  /\ UNCHANGED <<agent, mode, history, first, http, seen, lc_messages, iteration, final_response,
                 pending, tool_calls_made, db_results, outbox, chunks, tape, invocations,
                 toolRuns>>
  /\ UNCHANGED storeVars

\* chat: the interpreter and the query builder run, then the query if there is one
MultiInitialCrew ==
  /\ agent = "multi" /\ pc = "crew1"
  /\ \E out \in Choices :
       /\ Consume(out)
       /\ IF out.fails
          THEN /\ MultiReturn(MultiError(out.error))
               /\ UNCHANGED <<db_results, toolRuns>>
               /\ UNCHANGED storeVars
          ELSE /\ pc' = "crew2"
               /\ UNCHANGED <<result, response>>
               /\ IF NeedsQuery(Strip(out.content))
                  THEN /\ call' = QueryCall(CleanQuery(Strip(out.content)))
                       /\ ApplyDrop(call'.dropped)
                       /\ db_results' = [none |-> FALSE, text |-> call'.text]
                       /\ toolRuns' = toolRuns + 1
                       /\ cursor' = CursorAfterCall(call')
                       /\ UNCHANGED <<dataset, logVars, startup, conn, requests>>
                  ELSE /\ db_results' = None
                       /\ UNCHANGED toolRuns
                       /\ UNCHANGED storeVars
  /\ UNCHANGED <<agent, mode, history, first, http, lc_messages, iteration, final_response,
                 pending, tool_calls_made, outbox, chunks>>

\* chat: the full pipeline runs and its output becomes the answer
MultiCrew ==
  /\ agent = "multi" /\ pc = "crew2"
  /\ \E out \in Choices :
       /\ Consume(out)
       /\ MultiReturn(IF out.fails THEN MultiError(out.error) ELSE Report(out.content))
  /\ UNCHANGED <<agent, mode, history, first, http, lc_messages, iteration, final_response,
                 pending, tool_calls_made, db_results, outbox, chunks, toolRuns>>
  /\ UNCHANGED storeVars

\* chat_stream: the content of the envelope of chat is cut into chunks
MultiStream ==
  /\ agent = "multi" /\ mode = "stream" /\ pc = "chunk"
  /\ outbox' = Chunks(response.message.content)
  /\ pc' = "yield"
  /\ UNCHANGED <<agent, mode, history, first, http, seen, lc_messages, iteration, response,
                 final_response, pending, tool_calls_made, db_results, chunks, result,
                 tape, invocations, toolRuns>>
  /\ UNCHANGED storeVars

MultiYield == agent = "multi" /\ YieldStep

AgentNext ==
  \/ CallChat
  \/ CallStream
  \/ \E agent_type \in RequestedTypes, api_key \in ApiKeys : PostChat(agent_type, api_key)
  \/ ReactChatStart
  \/ ReactChatInvoke
  \/ ReactChatTool
  \/ ReactChatReturn
  \/ ReactStreamStart
  \/ ReactStreamInvoke
  \/ ReactStreamTool
  \/ ReactStreamContent
  \/ ReactStreamCall
  \/ ReactYield
  \/ LlmChatStart
  \/ LlmChatInvoke
  \/ LlmChatTool
  \/ LlmChatReturn
  \/ LlmStreamStart
  \/ LlmStreamInvoke
  \/ LlmStreamTool
  \/ LlmStreamContent
  \/ LlmStreamCall
  \/ LlmYield
  \/ MultiStart
  \/ MultiInitialCrew
  \/ MultiCrew
  \/ MultiStream
  \/ MultiYield

SpecAgent == AgentInit /\ [][AgentNext]_vars

(***************************************************************************)
(* Properties of the agents, checked under SpecAgent                       *)
(***************************************************************************)
\* invocation k of the running call answered with a request for tools
ToolRequested(k) == ~tape[k].fails /\ tape[k].tool_calls # <<>>

\* every invocation of the running call answered with a request for tools
AlwaysToolRequested == \A k \in 1..invocations : ToolRequested(k)

\* the last invocation of the running call raised
InvocationFailed == invocations >= 1 /\ tape[invocations].fails

ReactChat == agent = "react" /\ mode = "chat"

\* C1 as stated: a call of ReACTAgent.chat makes at most max_iterations model
\* invocations and ends by returning, and against a model that always requests
\* a tool it makes exactly max_iterations invocations, whatever the history and
\* whatever the tools requested.
C1_AnyHistory ==
  ReactChat =>
    /\ invocations <= max_iterations
    /\ (pc = "done" => result.kind = "returned")
    /\ (pc = "done" /\ AlwaysToolRequested => invocations = max_iterations)

\* C2 as stated: a call of LLMAgent.chat makes at most max_iterations model
\* invocations.
C2_LlmChatCapped ==
  (agent = "llm" /\ mode = "chat") => invocations <= max_iterations

\* C3 as stated: a call of chat_stream of ReACTAgent or LLMAgent makes at most
\* max_iterations model invocations, the final streamed call included.
C3_StreamCapped ==
  (agent \in {"react", "llm"} /\ mode = "stream") => invocations <= max_iterations

\* C4: when the first response of a chat call of ReACTAgent or LLMAgent requests
\* no tool, the call makes that one invocation only, runs no tool, and returns
\* the content of that response as its answer.
C4_FirstAnswerReturned ==
  ( /\ agent \in {"react", "llm"} /\ mode = "chat"
    /\ invocations >= 1 /\ ~tape[1].fails /\ tape[1].tool_calls = <<>> )
  => /\ invocations = 1
     /\ toolRuns = 0
     /\ pc \in {"after", "done"}
     /\ (pc = "done" => /\ result.kind = "returned"
                        /\ result.value.message.content = tape[1].content)

\* C4 reached: LLMAgent.chat returned the text of a first, tool-free response
C4_Witness ==
  /\ agent = "llm" /\ mode = "chat" /\ pc = "done" /\ invocations = 1
  /\ tape[1].content = AnswerText /\ tape[1].tool_calls = <<>>
  /\ result.kind = "returned" /\ result.value.message.content = AnswerText

\* C5 as stated: when ReACTAgent.chat leaves its loop at the cap with the model
\* still requesting tools, the answer is the content of the last model response
\* and the envelope carries no error.
C5_CapAnswerIsLastResponse ==
  ( /\ ReactChat /\ pc = "done" /\ invocations = max_iterations
    /\ ToolRequested(max_iterations) )
  => /\ result.kind = "returned"
     /\ result.value.message.content = tape[max_iterations].content
     /\ "error" \notin DOMAIN result.value.metadata

\* the outcome of chat and the chunks of chat_stream, once both have run
ChatResult == IF mode = "chat" THEN result ELSE first.result

StreamResult == IF mode = "stream" THEN result ELSE first.result

StreamedChunks == IF mode = "stream" THEN chunks ELSE first.chunks

\* C6 as stated: for every agent, history and model backend, the chunks yielded
\* by chat_stream concatenate to the content returned by chat.
C6_StreamEqualsChat ==
  ( /\ pc = "done" /\ first # None
    /\ ChatResult.kind = "returned" /\ StreamResult.kind = "exhausted" )
  => JoinLines(StreamedChunks, "") = ChatResult.value.message.content

\* C7 as stated: for every agent, a chat call in which a model invocation raised
\* returns an envelope with a non-empty answer and a non-empty metadata error.
C7_ChatSwallowsFailure ==
  (mode = "chat" /\ pc = "done" /\ InvocationFailed)
  => /\ result.kind = "returned"
     /\ result.value.message.content # ""
     /\ "error" \in DOMAIN result.value.metadata
     /\ result.value.metadata.error # ""

\* C8 as stated: for every agent, a chat_stream call in which a model
\* invocation raised ends normally after yielding the failure as text.
C8_StreamSwallowsFailure ==
  (mode = "stream" /\ pc = "done" /\ InvocationFailed)
  => /\ result.kind = "exhausted"
     /\ chunks # <<>>

(***************************************************************************)
(* Properties of the query tools, checked under SpecStore                  *)
(***************************************************************************)
\* C9 as stated: query_database never raises; when the execution of the
\* statement failed the envelope has success false and a non-empty error, and
\* when it succeeded the envelope has success true and row_count = len(data).
C9_QueryToolEnvelope ==
  call.entry = "tool" =>
    /\ ~call.raised
    /\ (call.queryRaised => ~call.envelope.success /\ call.envelope.error # "")
    /\ (~call.queryRaised => /\ call.envelope.success
                             /\ call.envelope.row_count = Len(call.envelope.data))

\* the statement has a LIMIT clause: the keyword stands outside literals,
\* quoted names and comments
HasLimitClause(q) ==
  \E i \in 1..(Len(DropComment(q)) - 4) :
    /\ Upper(SubSeq(DropComment(q), i, i + 4)) = "LIMIT"
    /\ Outside(DropComment(q), i)

\* the row limit of the entry point the last call came through
LimitOf(c) == IF c.entry = "http" THEN c.limit.n ELSE ToolLimit

\* C10 as stated: a statement without a LIMIT clause reaches the store with the
\* limit of its entry point appended, and returns at most that many rows.
C10_LimitAppended ==
  ( /\ call.entry \in {"tool", "mcp", "http"}
    /\ (call.entry = "http" => ~call.limit.isNone /\ call.limit.n > 0)
    /\ ~call.queryRaised /\ ~HasLimitClause(call.query) )
  => /\ call.sql = Strip(call.query) \o " LIMIT " \o IntStr(LimitOf(call))
     /\ Len(call.results) <= LimitOf(call)

\* the tool names the loop of the agent can execute: the tools ReACTAgent
\* binds, the two names LLMAgent._execute_tool knows
RegisteredTools ==
  IF agent = "react" THEN {ReactToolNames[i] : i \in 1..Len(ReactToolNames)}
  ELSE {"query_database", "get_database_info"}

\* the tool calls of the conversation that name a tool outside the registry,
\* as <<index of the requesting response, index of the call in it>>
UnknownRequests(msgs) ==
  {p \in (1..Len(msgs)) \X (1..2) :
     /\ msgs[p[1]].type = "ai" /\ p[2] <= Len(msgs[p[1]].tool_calls)
     /\ msgs[p[1]].tool_calls[p[2]].name \notin RegisteredTools}

\* the text of a tool-result turn says that the call failed
ReportsFailure(text) == Contains(Upper(text), "ERROR") \/ Contains(Upper(text), "UNKNOWN")

\* C11 as stated: a call of a tool outside the registry raises nothing; its
\* tool-result turn is appended at its place after the response, carries the
\* id of the call and reports the failure, and the loop goes on.
C11_UnknownToolReported ==
  agent \in {"react", "llm"} =>
    /\ \A p \in UnknownRequests(lc_messages) :
         p[1] + p[2] <= Len(lc_messages) =>
           /\ lc_messages[p[1] + p[2]].type = "tool"
           /\ lc_messages[p[1] + p[2]].tool_call_id = lc_messages[p[1]].tool_calls[p[2]].id
           /\ ReportsFailure(lc_messages[p[1] + p[2]].content)
    /\ (pc = "done" /\ result.kind = "raised" => InvocationFailed)

(***************************************************************************)
(* Properties of the MCP dispatcher, checked under SpecStore               *)
(***************************************************************************)
\* C12 as stated: the dispatch of a tool name the MCP server does not know
\* raises nothing and returns a text that carries an error.
C12_McpUnknownToolEnvelope ==
  (call.entry = "mcp_call" /\ call.query # "get_database_info") =>
    /\ ~call.raised
    /\ Contains(call.text, "\"error\"")

(***************************************************************************)
(* Properties of the envelope of chat, checked under SpecAgent             *)
(***************************************************************************)
\* the names of the tool calls requested by the responses of the
\* conversation, in order; when a chat call returns, each has been executed
RECURSIVE RequestedNames(_)
RequestedNames(msgs) ==
  IF msgs = <<>> THEN <<>>
  ELSE RequestedNames(SubSeq(msgs, 1, Len(msgs) - 1))
       \o [j \in 1..Len(msgs[Len(msgs)].tool_calls) |-> msgs[Len(msgs)].tool_calls[j].name]

\* a chat call of the tool loop of ReACTAgent or LLMAgent returned an
\* envelope that reports no error
ChatSucceeded ==
  /\ agent \in {"react", "llm"} /\ mode = "chat" /\ pc = "done"
  /\ result.kind = "returned" /\ "error" \notin DOMAIN result.value.metadata

\* C13 as stated: tools_used in the metadata of the envelope is the sequence of
\* the names of the tools invoked during the call, empty when none was.
C13_ToolsUsedAreInvoked ==
  ChatSucceeded =>
    /\ "tools_used" \in DOMAIN result.value.metadata
    /\ result.value.metadata.tools_used = RequestedNames(lc_messages)
    /\ Len(result.value.metadata.tools_used) = toolRuns

\* C14 as stated: the envelope of a chat call that did not fail carries
\* metadata.iterations, equal to the number of model invocations of the call
\* (1 without tools, 2 after one round of tools) and never above max_iterations.
C14_IterationsCountInvocations ==
  ChatSucceeded =>
    /\ "iterations" \in DOMAIN result.value.metadata
    /\ result.value.metadata.iterations = invocations
    /\ result.value.metadata.iterations <= max_iterations

\* the tokens invocation k reported under that name, zero when it reported none
Reported(k, name) == IF tape[k].token_usage = None THEN 0 ELSE tape[k].token_usage[name]

\* the sum of the tokens reported by the first n invocations of the call
RECURSIVE TokenSum(_, _)
TokenSum(n, name) == IF n = 0 THEN 0 ELSE TokenSum(n - 1, name) + Reported(n, name)

\* C15 as stated: each usage counter of the envelope is the sum of what the
\* invocations of the call reported; an invocation without token metadata
\* counts for zero and raises nothing.
C15_UsageIsSummed ==
  ChatSucceeded =>
    \A name \in {"prompt_tokens", "completion_tokens", "total_tokens"} :
      DictGet(result.value.usage, name, 0) = TokenSum(invocations, name)

(***************************************************************************)
(* Properties of the store, checked under SpecStore                        *)
(***************************************************************************)
\* C16 as stated: once initialize has run, no call through the query tool,
\* the MCP server or /query changes the rows or the schema of the attacks
\* table.
C16_StoreReadOnly ==
  [][conn = "open" => (tableExists' = tableExists /\ tableRows' = tableRows)]_vars

(***************************************************************************)
(* Properties of concurrent queries, checked under SpecCursor              *)
(***************************************************************************)
\* what db.query or db.get_table_info returns to request t when nothing else
\* touches the cursor between its steps: the rows of the statements it executed
OwnOutcome(t) ==
  IF requests[t].kind = "query"
  THEN [raised |-> QueryOutcome(requests[t].own).raised,
        error |-> QueryOutcome(requests[t].own).error,
        results |-> QueryOutcome(requests[t].own).results, info |-> NoInfo]
  ELSE IF ~requests[t].own.ok
  THEN [raised |-> TRUE, error |-> requests[t].own.error, results |-> <<>>, info |-> NoInfo]
  ELSE [raised |-> TableInfo(requests[t].pragma.rows, Take(requests[t].own.rows, 1)).raised,
        error |-> TableInfo(requests[t].pragma.rows, Take(requests[t].own.rows, 1)).error,
        results |-> <<>>,
        info |-> TableInfo(requests[t].pragma.rows, Take(requests[t].own.rows, 1)).info]

\* C17 as stated: under every interleaving, each finished call of db.query or
\* db.get_table_info returns the columns and rows of its own statements, and
\* raises only what its own statements raise.
C17_OwnRowsReturned ==
  \A t \in RequestIds :
    requests[t].pc = "done" =>
      /\ ~requests[t].garbled
      /\ requests[t].raised = OwnOutcome(t).raised
      /\ requests[t].error = OwnOutcome(t).error
      /\ requests[t].results = OwnOutcome(t).results
      /\ requests[t].info = OwnOutcome(t).info

(***************************************************************************)
(* Properties of the /chat handler, checked under SpecAgent                *)
(***************************************************************************)
\* C18 as stated: a request to /chat that names one of the three agent types,
\* with a history that is not empty and an API key configured, is answered
\* with a streaming response fed by chat_stream of that agent, not with an
\* HTTP error.
C18_ChatStreams ==
  ( /\ http # None /\ http.agent_type \in AgentTypes
    /\ history # <<>> /\ http.api_key # "" )
  => /\ http.response.streaming /\ http.response.status_code = 200
     /\ http.agent_type = agent /\ mode = "stream"

(***************************************************************************)
(* Properties of the conversation handed to the model, checked under       *)
(* SpecAgent                                                               *)
(***************************************************************************)
ToolLoop == agent \in {"react", "llm"}

\* the positions of the conversation that hold a response requesting tools
Requesting(msgs) == {i \in 1..Len(msgs) : msgs[i].type = "ai" /\ msgs[i].tool_calls # <<>>}

ToolTurns(msgs) == {i \in 1..Len(msgs) : msgs[i].type = "tool"}

\* the tool calls of the response at position i are answered directly after
\* it, one tool-result turn per call, in the order of the calls
AnsweredInOrder(msgs, i) ==
  \A j \in 1..Len(msgs[i].tool_calls) :
    /\ i + j <= Len(msgs)
    /\ msgs[i + j].type = "tool"
    /\ msgs[i + j].tool_call_id = msgs[i].tool_calls[j].id

\* every tool-result turn answers a call of the closest response before it
AnswersACall(msgs, n) ==
  \E i \in Requesting(msgs) : i < n /\ n - i <= Len(msgs[i].tool_calls)

\* the responses among the first n of the call that requested tools
ToolRounds(n) == {k \in 1..n : ToolRequested(k)}

IsPrefix(a, b) == Len(a) <= Len(b) /\ a = SubSeq(b, 1, Len(a))

\* C20 as stated: the conversation of invocation k is a strict prefix of the
\* conversation of invocation k + 1.
C20_StrictPrefix ==
  ToolLoop =>
    \A k \in 1..(Len(seen) - 1) :
      IsPrefix(seen[k], seen[k + 1]) /\ Len(seen[k]) < Len(seen[k + 1])


\* C21: in chat_stream of LLMAgent and ReACTAgent every tool execution and
\* every model invocation precedes the first yielded chunk: a step of a
\* streaming call that leaves at least one chunk yielded executes no tool,
\* invokes no model and sends no query to the store.
C21_ToolsBeforeChunks ==
  [][(ToolLoop /\ mode = "stream" /\ mode' = "stream" /\ chunks' # <<>>)
       => (toolRuns' = toolRuns /\ invocations' = invocations /\ call' = call
           /\ tool_calls_made' = tool_calls_made)]_vars

\* a streaming call that ran a tool and has yielded a chunk
C21_Witness ==
  /\ ToolLoop /\ mode = "stream"
  /\ toolRuns >= 1
  /\ chunks # <<>>


\* C22: query and get_table_info return only in the state reached by a
\* successful initialize() not followed by close(): before initialize, after
\* an initialize that failed on the missing dataset file, and after close(),
\* every call of query and of get_table_info raises.
C22_QueryNeedsInitialized ==
  (conn = "none" \/ startup = "failed" \/ conn = "closed") =>
    /\ \A q \in Queries : Query(conn, tableExists, tableRows, q).raised
    /\ GetTableInfo(conn, tableExists, tableRows).raised


\* C23: POST /chat with an agent_type other than llm, react and multi and a
\* configured API key is answered with status 400 whose detail carries
\* 'Unknown agent type'; no agent is constructed, no model is invoked and no
\* database query runs.  get_agent_by_type(t) for t in {llm, react, multi}
\* returns an agent whose get_agent_type() is t.
C23_UnknownAgentTypeRefused ==
  /\ ( /\ http # None /\ http.agent_type \notin {"llm", "react", "multi"}
       /\ http.api_key # "" )
     => /\ http.response.status_code = 400 /\ ~http.response.streaming
        /\ Contains(http.detail, "Unknown agent type")
        /\ http.constructed = None
        /\ invocations = 0 /\ toolRuns = 0 /\ seen = <<>> /\ call = NoCall
        /\ mode = "none" /\ result = None /\ chunks = <<>>
  /\ \A t \in {"llm", "react", "multi"} :
       /\ ~GetAgentByType(t).raised
       /\ GetAgentType(GetAgentByType(t).constructed.class) = t

\* a request for the agent type "rag" with a configured key has been answered
C23_Witness ==
  /\ http # None /\ http.agent_type = "rag" /\ http.api_key = "sk-test"
  /\ pc = "refused"


\* the user and assistant messages of the history, in their order
TurnsOf(messages) == SelectSeq(messages, LAMBDA m : m.role = "user" \/ m.role = "assistant")

\* the content of the last system message of the history, or the default prompt
SystemPromptOf(messages) ==
  IF \E i \in 1..Len(messages) : messages[i].role = "system"
  THEN messages[CHOOSE i \in 1..Len(messages) :
                  /\ messages[i].role = "system"
                  /\ \A j \in (i + 1)..Len(messages) : messages[j].role # "system"].content
  ELSE LLM_AGENT_SYSTEM_PROMPT

\* C24: the conversation LLMAgent hands to its first model invocation, in chat
\* and in chat_stream, holds exactly one system message, at position 0: the
\* content of the last system message of the history if there is one, else
\* the default prompt.  The user and assistant messages of the history follow
\* in their order; messages of any other role are dropped.
C24_OneSystemMessageFirst ==
  (agent = "llm" /\ seen # <<>>) =>
    /\ Len(seen[1]) = 1 + Len(TurnsOf(history))
    /\ seen[1][1].type = "system"
    /\ seen[1][1].content = SystemPromptOf(history)
    /\ \A k \in 1..Len(TurnsOf(history)) :
         /\ seen[1][k + 1].type = (IF TurnsOf(history)[k].role = "user" THEN "human" ELSE "ai")
         /\ seen[1][k + 1].content = TurnsOf(history)[k].content

\* LLMAgent has invoked the model on a history with two system messages, the
\* first of them after a user message, and a message of another role
C24_Witness ==
  /\ agent = "llm" /\ seen # <<>>
  /\ Cardinality(SystemIndexes(history)) = 2
  /\ history[1].role = "user"
  /\ \E i \in 1..Len(history) : history[i].role = "tool"


\* the history holds nothing MultiAgent can answer: no user message, or an
\* empty last user message
NothingAsked(messages) ==
  \/ \A i \in 1..Len(messages) : messages[i].role # "user"
  \/ \E i \in 1..Len(messages) :
       /\ messages[i].role = "user" /\ messages[i].content = ""
       /\ \A j \in (i + 1)..Len(messages) : messages[j].role # "user"

\* the running method has invoked no model and sent no query
NothingDone == invocations = 0 /\ toolRuns = 0 /\ seen = <<>> /\ call = NoCall

\* C25: with nothing to answer no model is invoked.  ReACTAgent.chat on a
\* history without user and assistant messages returns 'No messages provided.'
\* with an error entry in the metadata, and chat_stream yields exactly that one
\* chunk; MultiAgent.chat on a history without a user message, or whose last
\* user message is empty, returns 'No user message found.' with an error entry
\* in the metadata; each with zero model invocations and zero database queries.
C25_NothingToAnswer ==
  /\ (agent = "react" /\ mode \in {"chat", "stream"} /\ TurnsOf(history) = <<>>) => NothingDone
  /\ (agent = "react" /\ mode = "chat" /\ pc = "done" /\ TurnsOf(history) = <<>>) =>
       /\ result.kind = "returned"
       /\ result.value.message = Message("assistant", "No messages provided.")
       /\ "error" \in DOMAIN result.value.metadata
  /\ (agent = "react" /\ mode = "stream" /\ pc = "done" /\ TurnsOf(history) = <<>>) =>
       /\ chunks = <<"No messages provided.">>
       /\ result = Exhausted
  /\ (agent = "multi" /\ mode = "chat" /\ NothingAsked(history)) => NothingDone
  /\ (agent = "multi" /\ mode = "chat" /\ pc = "done" /\ NothingAsked(history)) =>
       /\ result.kind = "returned"
       /\ result.value.message = Message("assistant", "No user message found.")
       /\ "error" \in DOMAIN result.value.metadata

\* ReACTAgent.chat has returned on the empty history
C25_Witness ==
  /\ agent = "react" /\ mode = "chat" /\ pc = "done" /\ history = <<>>
  /\ result.kind = "returned"

\* MultiAgent.chat has returned on a history whose last user message is empty
C25_EmptyQuestion ==
  /\ agent = "multi" /\ mode = "chat" /\ pc = "done"
  /\ history # <<>> /\ history[Len(history)] = Message("user", "")


MultiChat == agent = "multi" /\ mode = "chat"

\* the output of the query builder declines a query, in whatever letter case
Declined == Contains(Upper(tape[1].content), "NO DATABASE QUERY NEEDED")

\* C26: one call of MultiAgent.chat runs the initial crew, then at most one
\* database query, then the full crew.  The query runs exactly when the output
\* of the query builder does not contain 'NO DATABASE QUERY NEEDED' in any
\* letter case, and metadata.database_query_executed is true exactly when it
\* ran.  A failing query does not end the call: the full crew still runs, with
\* the failure text as its database results.
C26_MultiPipelineOrder ==
  MultiChat =>
    /\ toolRuns <= 1 /\ invocations <= 2
    /\ pc = "crew1" => (invocations = 0 /\ toolRuns = 0)
    /\ pc = "crew2" =>
         /\ invocations = 1 /\ ~tape[1].fails
         /\ (toolRuns = 1) <=> ~Declined
         /\ (db_results # None) <=> (toolRuns = 1)
         /\ (toolRuns = 1 /\ ~call.envelope.success) =>
              /\ db_results.text = call.text
              /\ Contains(call.text, "\"success\": false")
              /\ DataContext(db_results) = "\n\nDatabase query results:\n" \o call.text
    /\ (pc = "done" /\ toolRuns = 1) => invocations = 2
    /\ (pc = "done" /\ "database_query_executed" \in DOMAIN result.value.metadata) =>
         /\ invocations = 2
         /\ result.value.metadata.database_query_executed = (toolRuns = 1)
         /\ (toolRuns = 1) <=> ~Declined

\* a call whose query failed has returned the report of the full crew
C26_Witness ==
  /\ MultiChat /\ pc = "done"
  /\ toolRuns = 1 /\ ~call.envelope.success /\ call.envelope.error # ""
  /\ "database_query_executed" \in DOMAIN result.value.metadata
  /\ result.value.metadata.database_query_executed

\* a call whose query builder declined in mixed letter case has returned
C26_DeclinedReached ==
  /\ MultiChat /\ pc = "done" /\ toolRuns = 0 /\ invocations = 2
  /\ tape[1].content = "No database query needed.\n"


\* the roles and contents of a stored message list
RolesAndContents(stored) ==
  [k \in 1..Len(stored) |-> [role |-> stored[k].role, content |-> stored[k].content]]

\* the logger after the last call is made once more with the same arguments
LoggedAgain ==
  IF logged.op = "log_conversation"
  THEN LogConversation(logger, logged.id, logged.messages, logged.agent_type)
  ELSE UpdateConversation(logger, logged.id, logged.messages, logged.agent_type)

\* C27 as stated: log_conversation does not duplicate messages; calling it a
\* second time with the same message list leaves the stored list (roles and
\* contents) as it was after the first call.
C27_LogConversationNoDuplicates ==
  logged.op = "log_conversation" =>
    RolesAndContents(LoggedAgain.active[logged.id].messages)
      = RolesAndContents(logger.active[logged.id].messages)


\* the conversation the last call was about, before and after the call
Before == logged.before.active[logged.id]
After == logger.active[logged.id]
WasActive == logged.id \in DOMAIN logged.before.active

\* the file path chosen when the conversation of the last call was started
ChosenPath == IF WasActive THEN Before.filepath ELSE Filepath(logged.id, logged.before.now)

\* the file paths written by the last call
Written == SubSeq(logger.writes, Len(logged.before.writes) + 1, Len(logger.writes))

\* C28: after update_conversation(id, messages, agent_type), whatever came
\* before, the stored messages are exactly the given list, the stored agent
\* type is the given one, and the file written, once, is the one chosen when
\* the conversation was started; calling it twice with the same arguments
\* leaves what calling it once leaves (roles and contents).
C28_UpdateReplaces ==
  logged.op = "update_conversation" =>
    /\ logged.id \in DOMAIN logger.active
    /\ RolesAndContents(After.messages) = RolesAndContents(logged.messages)
    /\ \A k \in 1..Len(logged.messages) :
         logged.messages[k].timestamp # None =>
           After.messages[k].timestamp = logged.messages[k].timestamp.text
    /\ After.agent_type = logged.agent_type
    /\ After.filepath = ChosenPath
    /\ Written = <<ChosenPath>>
    /\ logger.files[ChosenPath].messages = After.messages
    /\ logger.files[ChosenPath].agent_type = logged.agent_type
    /\ RolesAndContents(LoggedAgain.active[logged.id].messages) = RolesAndContents(After.messages)
    /\ LoggedAgain.active[logged.id].agent_type = After.agent_type
    /\ LoggedAgain.active[logged.id].filepath = After.filepath

\* update_conversation has replaced the messages and the agent type of a
\* conversation that was active with other messages and another agent type
C28_Witness ==
  /\ logged.op = "update_conversation" /\ WasActive
  /\ logged.messages # <<>>
  /\ Before.messages # <<>>
  /\ Before.agent_type # logged.agent_type

\* C29: end_conversation(id) on an active conversation writes the log once,
\* with ended_at set, and removes the id from the active conversations, leaving
\* the other conversations and files as they were; on an id that is not active
\* it writes nothing and changes nothing.  From the start of a conversation to
\* its end every write goes to the file path chosen at the start, also when
\* log_message started the conversation, with agent type 'unknown'.
C29_EndConversation ==
  /\ (logged.op = "end_conversation" /\ WasActive) =>
       /\ Written = <<Before.filepath>>
       /\ "ended_at" \in DOMAIN logger.files[Before.filepath]
       /\ logger.files[Before.filepath].messages = Before.messages
       /\ DOMAIN logger.active = DOMAIN logged.before.active \ {logged.id}
       /\ \A other \in DOMAIN logger.active : logger.active[other] = logged.before.active[other]
       /\ \A path \in DOMAIN logged.before.files \ {Before.filepath} :
            logger.files[path] = logged.before.files[path]
  /\ (logged.op = "end_conversation" /\ ~WasActive) =>
       /\ logger.active = logged.before.active
       /\ logger.files = logged.before.files
       /\ logger.writes = logged.before.writes
  /\ (logged.op \in {"log_message", "log_conversation", "update_conversation"}) =>
       /\ After.filepath = ChosenPath
       /\ \A k \in 1..Len(Written) : Written[k] = ChosenPath
       /\ \A other \in DOMAIN logged.before.active \ {logged.id} :
            logger.active[other] = logged.before.active[other]
  /\ (logged.op = "log_message" /\ ~WasActive) =>
       /\ After.agent_type = "unknown"
       /\ Written = <<>>

\* end_conversation has ended a conversation that held messages while another
\* conversation was active
C29_Witness ==
  /\ logged.op = "end_conversation" /\ WasActive
  /\ Before.messages # <<>>
  /\ DOMAIN logger.active # {}

\* a conversation started by log_message has been written to its file
C29_ImplicitStart ==
  /\ logged.op = "log_conversation" /\ WasActive
  /\ Before.agent_type = "unknown"
  /\ Written # <<>>


\* C30: after _load_csv on a well-formed file with n data rows, for no rows,
\* fewer rows than a batch, whole batches, and whole batches and a remainder,
\* the table holds exactly the n rows, each once and in file order, every
\* column is TEXT, and get_table_info reports row_count = n and one column
\* entry per header.
C30_LoadCsvLoadsEveryRow ==
  (dataset # None /\ dataset.present) =>
    /\ Len(tableRows) = Len(dataset.rows)
    /\ tableRows = dataset.rows
    /\ conn = "open" =>
         /\ ~GetTableInfo(conn, tableExists, tableRows).raised
         /\ GetTableInfo(conn, tableExists, tableRows).row_count = Len(dataset.rows)
         /\ Len(GetTableInfo(conn, tableExists, tableRows).columns) = Len(Columns)
         /\ \A i \in 1..Len(Columns) :
              /\ GetTableInfo(conn, tableExists, tableRows).columns[i].name = Columns[i]
              /\ GetTableInfo(conn, tableExists, tableRows).columns[i].type = "TEXT"

\* a file of whole batches and a remainder has been loaded and
\* get_database_info has been asked about the table
C30_Witness ==
  /\ dataset # None /\ dataset.present
  /\ Len(dataset.rows) > BatchSize /\ Len(dataset.rows) % BatchSize = BatchSize \div 2
  /\ conn = "open" /\ call.entry = "mcp_call" /\ call.query = "get_database_info"
  /\ ~call.raised

\* a file of exactly one batch has been loaded
C30_ExactBatch ==
  /\ dataset # None /\ dataset.present /\ Len(dataset.rows) = BatchSize
  /\ Len(tableRows) = BatchSize

====
